---- MODULE Spec2Model ----
(***************************************************************************)
(* Segment fetchers of NextDownloader.                                     *)
(*                                                                         *)
(*   dash     DashDownloadTool::download_segments_parallel                 *)
(*            and DashDownloadTool::download_segment (core/tools/dash.rs)  *)
(*   hls      HlsDownloader::download_segments (core/streaming/hls.rs)     *)
(*   hlstool  HlsDownloadTool::download_direct (core/tools/hls.rs)         *)
(*                                                                         *)
(* One run of the model is one call of one fetcher on a plan of NumSegs    *)
(* segments.  Every await point of the source is a step boundary.          *)
(***************************************************************************)
EXTENDS FiniteSets, Integers, Sequences, TLC

\* ---- bounds of the model -------------------------------------------------
NumSegs == 3        \* segments of the plan
MaxConc == 2        \* largest max_concurrent_downloads / connections tried
MaxRetry == 2       \* largest StreamingOptions::retry_count tried
Max416 == 2         \* 416 answers the server gives during one call

Idx == 0..(NumSegs - 1)

VARIABLES
    fetcher,          \* which fetcher this run calls
    max_concurrent,   \* max_concurrent / concurrent_limit / connections
    retry_count,      \* StreamingOptions::retry_count (hls)
    stateMode,        \* how the state argument reaches the workers (dash)
    state_clone,      \* completed_segments of the state when the call starts
    state,            \* completed_segments of the caller's DownloadState
    state_file,       \* the persisted state file: [exists, completed]
    files,            \* segment directory: file of each segment index
    pc,               \* position of the fetcher's own future
    task,             \* position of each segment's worker
    handle,           \* the `file` handle download_segment holds
    requests,         \* HTTP requests sent so far, per segment
    deletions,        \* remove_file calls so far, per segment
    attempts,         \* `attempts` of the hls retry loop, per segment
    queue,            \* futures the stream has not yet handed to the buffer
    buffer,           \* futures inside buffer_unordered
    results,          \* what collect() has gathered, in arrival order
    ret,              \* the fetcher's return value
    merged,           \* the path list handed to the merge step
    active_downloads, \* DashDownloadTool::active_downloads
    \* -- DownloadState on its own (core/tools/dash.rs lines 17-103)
    store_state,      \* a DownloadState value
    store_saved,      \* the value the last save() was called on
    store_file,       \* the text save() wrote: [exists, text]
    store_loaded,     \* what the last load() returned
    store_paths,      \* two output paths and their state file paths
    store_last,       \* the last DownloadState operation and its argument
    \* -- DashDownloadTool::download_dash
    run_file0,        \* the other fields of the state file before the call
    run_plan,         \* download_dash: which representations were selected
    run_state,        \* download_dash: the other fields of `state`
    run_file,         \* the other fields of the state file on disk
    run_marked,       \* indices marked completed during this call
    run_saved,        \* whether this call has written the state file
    run_error,        \* download_dash: the step whose error was returned
    output_file,      \* whether the final output file has been written
    video_paths,      \* download_dash: the local video_paths
    run_pc,           \* position of download_dash
    \* -- DownloadManager (core/downloader/mod.rs)
    mgr_pc,           \* position of the worker spawned by start_download
    mgr_mutex,        \* the std::sync::Mutex around `downloads`
    convert_to_h265,  \* options.convert_to_h265 && h265_converter.is_some()
    content_type,     \* the ContentType the worker matches on
    error_message,    \* whether DownloadInfo::error_message is Some
    mgr_cancelled,    \* whether cancel_download has returned Ok
    download_status,  \* DownloadInfo::status of the download
    \* -- one call of a function: its arguments; its locals while it runs and
    \* what it returns
    input,
    output,
    \* -- HlsDownloadTool::download_direct (core/tools/hls.rs 189-349)
    direct_pc,        \* position of download_direct
    direct_error,     \* the step whose error download_direct returned
    registry,         \* HlsDownloadTool::active_downloads: the task ids in it
    downloaded,       \* the AtomicUsize `downloaded`
    ticker,           \* position of the spawned progress task
    reports           \* what the progress callback was called with, in order

storeVars == <<store_state, store_saved, store_file, store_loaded, store_paths,
               store_last>>

runVars == <<run_file0, run_plan, run_state, run_file, run_marked, run_saved,
             run_error, output_file, video_paths, run_pc>>

mgrVars == <<mgr_pc, mgr_mutex, convert_to_h265, content_type, error_message,
             mgr_cancelled, download_status>>

pureVars == <<input, output>>

directVars == <<direct_pc, direct_error, registry, downloaded, ticker, reports>>

vars == <<fetcher, max_concurrent, retry_count, stateMode, state_clone, state,
          state_file, files, pc, task, handle, requests, deletions, attempts,
          queue, buffer, results, ret, merged, active_downloads,
          storeVars, runVars, mgrVars, pureVars, directVars>>

\* ---- helpers --------------------------------------------------------------
RECURSIVE AscSeq(_)
\* The elements of a set of indices as an ascending sequence
\* (the order in which `for (index, url) in ....enumerate()` visits them).
AscSeq(S) ==
    IF S = {} THEN <<>>
    ELSE LET m == CHOOSE x \in S : \A y \in S : x <= y
         IN  <<m>> \o AscSeq(S \ {m})

RECURSIVE SumOver(_, _)
SumOver(f, S) ==
    IF S = {} THEN 0
    ELSE LET x == CHOOSE y \in S : TRUE
         IN  f[x] + SumOver(f, S \ {x})

SeqElems(s) == { s[k] : k \in DOMAIN s }

\* ---- DownloadState (core/tools/dash.rs) -----------------------------------
is_segment_completed(completed_segments, index) ==
    \E k \in DOMAIN completed_segments : completed_segments[k] = index

\* A mark that pushes without looking.
mark_segment_completed_push(completed_segments, index) ==
    Append(completed_segments, index)

mark_segment_completed(completed_segments, index) ==
    IF ~ is_segment_completed(completed_segments, index)
    THEN Append(completed_segments, index)
    ELSE completed_segments

\* DownloadState::save: the file then holds exactly the saved value.
save(completed_segments) == [exists |-> TRUE, completed |-> completed_segments]

NoStateFile == [exists |-> FALSE, completed |-> <<>>]

\* ---- buffer_unordered ------------------------------------------------------
\* How many futures the stream moves from `queue` into the buffer when the
\* buffer holds `inBuf` futures: it fills the buffer up to its width.
PullCount(q, inBuf, width) ==
    IF width - inBuf <= 0 THEN 0
    ELSE IF Len(q) <= width - inBuf THEN Len(q) ELSE width - inBuf

Pulled(q, inBuf, width) == { q[k] : k \in 1..PullCount(q, inBuf, width) }

\* A stream that never drops the futures it has started.
RestKeepsAll(q, inBuf, width) == q

Rest(q, inBuf, width) == SubSeq(q, PullCount(q, inBuf, width) + 1, Len(q))

\* ---- the state before the call ---------------------------------------------
\* The segment directory holds at most one file left by an earlier call.
DirContents ==
    { [i \in Idx |-> "absent"] } \cup
    { [i \in Idx |-> IF i = k THEN f ELSE "absent"] :
          k \in Idx, f \in {"partial", "full"} }

\* The parts of the model a specification does not exercise stay put.
StoreIdle ==
    /\ store_state = <<>>
    /\ store_saved = <<>>
    /\ store_file = [exists |-> FALSE, text |-> <<>>]
    /\ store_loaded = [kind |-> "none"]
    /\ store_paths = <<>>
    /\ store_last = [op |-> "none"]

NoStateFields == [source_url |-> "", output_path |-> "", total_segments |-> 0]

AbsentFile ==
    [kind |-> "absent", source_url |-> "", output_path |-> "",
     total_segments |-> 0]

\* The state file as state.save writes it (the fields besides
\* completed_segments).
SavedFields(fields) ==
    [kind |-> "ok", source_url |-> fields.source_url,
     output_path |-> fields.output_path,
     total_segments |-> fields.total_segments]

RunLocalsFresh ==
    /\ run_plan = [video |-> FALSE, audio |-> FALSE]
    /\ run_marked = {}
    /\ run_saved = FALSE
    /\ run_error = "none"
    /\ output_file = FALSE
    /\ video_paths = <<>>

RunIdle ==
    /\ run_pc = "direct"
    /\ run_state = NoStateFields
    /\ run_file = AbsentFile
    /\ run_file0 = AbsentFile
    /\ RunLocalsFresh

PureIdle ==
    /\ input = <<>>
    /\ output = <<>>

DirectIdle ==
    /\ direct_pc = "none"
    /\ direct_error = "none"
    /\ registry = {}
    /\ downloaded = 0
    /\ ticker = "none"
    /\ reports = <<>>

MgrIdle ==
    /\ download_status = "none"
    /\ mgr_pc = "none"
    /\ mgr_mutex = "free"
    /\ convert_to_h265 = FALSE
    /\ content_type = "none"
    /\ error_message = FALSE
    /\ mgr_cancelled = FALSE

InitCommon ==
    /\ StoreIdle
    /\ RunIdle
    /\ MgrIdle
    /\ PureIdle
    /\ DirectIdle
    /\ pc = "init"
    /\ task = [i \in Idx |-> "none"]
    /\ handle = [i \in Idx |-> "none"]
    /\ requests = [i \in Idx |-> 0]
    /\ deletions = [i \in Idx |-> 0]
    /\ attempts = [i \in Idx |-> 0]
    /\ queue = <<>>
    /\ buffer = {}
    /\ results = <<>>
    /\ ret = [kind |-> "none", paths |-> <<>>]
    /\ merged = <<>>
    /\ active_downloads = {}

InitDash ==
    /\ fetcher = "dash"
    /\ max_concurrent \in 1..MaxConc
    /\ retry_count = 0
    /\ stateMode \in {"none", "shared", "cloned"}
    /\ \E done \in SUBSET Idx :
          /\ state_clone = IF stateMode = "none" THEN <<>> ELSE AscSeq(done)
          /\ state = state_clone
          /\ state_file = IF state_clone = <<>> THEN NoStateFile
                          ELSE save(state_clone)
    /\ files \in DirContents
    /\ InitCommon

\* ---- DashDownloadTool::download_segments_parallel --------------------------
\* Lines 242-319: the loop that skips completed segments and spawns one task
\* per other segment; then the stream over the join handles is created and
\* polled for the first time, which fills the buffer.
\* A loop that never consults the state.
DashSkippedNone == {}

\* Lines 251-256: `if state.is_segment_completed(index) { ...; continue; }`.
DashSkipped ==
    { i \in Idx : stateMode # "none" /\ is_segment_completed(state, i) }

DashStart ==
    /\ fetcher = "dash"
    /\ pc = "init"
    /\ LET tasks == AscSeq(Idx \ DashSkipped) IN
          /\ task' = [i \in Idx |-> IF i \in DashSkipped THEN "skipped"
                                    ELSE "spawned"]
          /\ buffer' = Pulled(tasks, 0, max_concurrent)
          /\ queue' = Rest(tasks, 0, max_concurrent)
    /\ pc' = "fetching"
    /\ UNCHANGED <<fetcher, max_concurrent, retry_count, stateMode,
                   state_clone, state, state_file, files, handle, requests,
                   deletions, attempts, results, ret, merged,
                   active_downloads>>
    /\ UNCHANGED <<storeVars, runVars, mgrVars, pureVars, directVars>>

\* download_segment, lines 814-838: open the existing file or create it, take
\* its size, add a Range header when the size is positive, send the request.
file_size_positive(i) == files[i] \in {"partial", "full"}

DashSend(i) ==
    /\ fetcher = "dash"
    /\ task[i] = "spawned"
    /\ active_downloads' = active_downloads \cup {i}
    /\ IF files[i] = "absent"
       THEN /\ files' = [files EXCEPT ![i] = "empty"]
            /\ handle' = [handle EXCEPT ![i] = "rw"]
       ELSE /\ files' = files
            /\ handle' = [handle EXCEPT ![i] = "ro"]
    /\ requests' = [requests EXCEPT ![i] = @ + 1]
    /\ task' = [task EXCEPT ![i] = "inflight"]
    /\ UNCHANGED <<fetcher, max_concurrent, retry_count, stateMode,
                   state_clone, state, state_file, pc, deletions, attempts,
                   queue, buffer, results, ret, merged>>
    /\ UNCHANGED <<storeVars, runVars, mgrVars, pureVars, directVars>>

\* download_segment, lines 841-845: 416 deletes the local file and calls
\* download_segment again.
DashRangeNotSatisfiable(i) ==
    /\ fetcher = "dash"
    /\ task[i] = "inflight"
    /\ SumOver(deletions, Idx) < Max416
    /\ files' = [files EXCEPT ![i] = "absent"]
    /\ deletions' = [deletions EXCEPT ![i] = @ + 1]
    /\ handle' = [handle EXCEPT ![i] = "none"]
    /\ task' = [task EXCEPT ![i] = "spawned"]
    /\ UNCHANGED <<fetcher, max_concurrent, retry_count, stateMode,
                   state_clone, state, state_file, pc, requests, attempts,
                   queue, buffer, results, ret, merged, active_downloads>>
    /\ UNCHANGED <<storeVars, runVars, mgrVars, pureVars, directVars>>

\* download_segment, lines 835-838 and 847-849: the request fails or the
\* status is not a success.
DashFailure(i) ==
    /\ fetcher = "dash"
    /\ task[i] = "inflight"
    /\ handle' = [handle EXCEPT ![i] = "none"]
    /\ task' = [task EXCEPT ![i] = "dl_err"]
    /\ UNCHANGED <<fetcher, max_concurrent, retry_count, stateMode,
                   state_clone, state, state_file, files, pc, requests,
                   deletions, attempts, queue, buffer, results, ret, merged,
                   active_downloads>>
    /\ UNCHANGED <<storeVars, runVars, mgrVars, pureVars, directVars>>

\* download_segment, lines 851-867: a success status.  A 206 answer to a
\* Range request reopens the file for appending; otherwise the handle of
\* line 814-818 is written (File::open gives a read-only handle, on which
\* write_all fails).  The body either arrives whole or breaks off.
DashBody(i, status, whole) ==
    /\ fetcher = "dash"
    /\ task[i] = "inflight"
    /\ status \in {"200", "206"}
    /\ status = "206" => files[i] = "partial"
    /\ LET h == IF file_size_positive(i) /\ status = "206" THEN "rw"
                ELSE handle[i]
       IN  IF h = "ro"
           THEN /\ files' = files
                /\ task' = [task EXCEPT ![i] = "dl_err"]
           ELSE IF whole
           THEN /\ files' = [files EXCEPT ![i] = "full"]
                /\ task' = [task EXCEPT ![i] = "dl_ok"]
           ELSE /\ files' = [files EXCEPT ![i] = "partial"]
                /\ task' = [task EXCEPT ![i] = "dl_err"]
    /\ handle' = [handle EXCEPT ![i] = "none"]
    /\ UNCHANGED <<fetcher, max_concurrent, retry_count, stateMode,
                   state_clone, state, state_file, pc, requests, deletions,
                   attempts, queue, buffer, results, ret, merged,
                   active_downloads>>
    /\ UNCHANGED <<storeVars, runVars, mgrVars, pureVars, directVars>>

\* The spawned task, lines 293-314: after download_segment returned, a
\* successful worker marks its index and saves the state, then the task
\* leaves active_downloads and ends.
\*   shared: the workers lock one DownloadState (`state.lock().await`).
\*   cloned: every worker got its own copy (`state.cloned()` of the
\*           Option<&mut DownloadState> parameter).
\* A worker that records its index whatever download_segment returned.
result_is_ok_always(i) == TRUE

\* `if result.is_ok()`, line 294.
result_is_ok(i) == task[i] = "dl_ok"

DashTaskEnd(i) ==
    /\ fetcher = "dash"
    /\ task[i] \in {"dl_ok", "dl_err"}
    /\ IF result_is_ok(i) /\ stateMode = "shared"
       THEN /\ state' = mark_segment_completed(state, i)
            /\ state_file' = save(mark_segment_completed(state, i))
            /\ run_file' = SavedFields(run_state)
            /\ run_marked' = run_marked \cup {i}
            /\ run_saved' = TRUE
       ELSE IF result_is_ok(i) /\ stateMode = "cloned"
       THEN /\ state' = state
            /\ state_file' = save(mark_segment_completed(state_clone, i))
            /\ run_file' = SavedFields(run_state)
            /\ run_marked' = run_marked \cup {i}
            /\ run_saved' = TRUE
       ELSE UNCHANGED <<state, state_file, run_file, run_marked, run_saved>>
    /\ active_downloads' = active_downloads \ {i}
    /\ task' = [task EXCEPT ![i] = IF task[i] = "dl_ok" THEN "ok" ELSE "err"]
    /\ UNCHANGED <<fetcher, max_concurrent, retry_count, stateMode,
                   state_clone, files, pc, handle, requests, deletions,
                   attempts, queue, buffer, results, merged, ret>>
    /\ UNCHANGED <<run_file0, run_plan, run_state, run_error, output_file,
                   video_paths, run_pc>>
    /\ UNCHANGED <<storeVars, mgrVars, pureVars, directVars>>

\* buffer_unordered + collect, lines 332-335: a finished join handle inside
\* the buffer is yielded, and the buffer is refilled from the stream.
DashCollect(i) ==
    /\ fetcher = "dash"
    /\ pc = "fetching"
    /\ i \in buffer
    /\ task[i] \in {"ok", "err"}
    /\ results' = Append(results, [index |-> i, ok |-> task[i] = "ok"])
    /\ buffer' = (buffer \ {i})
                   \cup Pulled(queue, Cardinality(buffer) - 1, max_concurrent)
    /\ queue' = Rest(queue, Cardinality(buffer) - 1, max_concurrent)
    /\ UNCHANGED <<fetcher, max_concurrent, retry_count, stateMode,
                   state_clone, state, state_file, files, pc, task, handle,
                   requests, deletions, attempts, ret, merged,
                   active_downloads>>
    /\ UNCHANGED <<storeVars, runVars, mgrVars, pureVars, directVars>>

\* Lines 337-364: the paths of the successful results whose file exists, in
\* the order of `results`; an error when any result failed.
DashSuccessPaths ==
    LET ok(k) == results[k].ok /\ files[results[k].index] # "absent"
        F[k \in 0..Len(results)] ==
            IF k = 0 THEN <<>>
            ELSE IF ok(k) THEN Append(F[k - 1], results[k].index)
            ELSE F[k - 1]
    IN  F[Len(results)]

DashFailedSegments ==
    { k \in DOMAIN results :
          ~ (results[k].ok /\ files[results[k].index] # "absent") }

\* download_dash, lines 507-517: the returned paths go to merge_segments.
DashReturn ==
    /\ fetcher = "dash"
    /\ pc = "fetching"
    /\ buffer = {}
    /\ queue = <<>>
    /\ IF DashFailedSegments # {}
       THEN /\ ret' = [kind |-> "err", paths |-> <<>>]
            /\ merged' = merged
       ELSE /\ ret' = [kind |-> "ok", paths |-> DashSuccessPaths]
            /\ merged' = DashSuccessPaths
    /\ pc' = "returned"
    /\ UNCHANGED <<fetcher, max_concurrent, retry_count, stateMode,
                   state_clone, state, state_file, files, task, handle,
                   requests, deletions, attempts, queue, buffer, results,
                   active_downloads>>
    /\ UNCHANGED <<storeVars, runVars, mgrVars, pureVars, directVars>>

NextDash ==
    \/ DashStart
    \/ \E i \in Idx : DashSend(i)
    \/ \E i \in Idx : DashRangeNotSatisfiable(i)
    \/ \E i \in Idx : DashFailure(i)
    \/ \E i \in Idx : \E status \in {"200", "206"} : \E whole \in BOOLEAN :
          DashBody(i, status, whole)
    \/ \E i \in Idx : DashTaskEnd(i)
    \/ \E i \in Idx : DashCollect(i)
    \/ DashReturn

SpecDash == InitDash /\ [][NextDash]_vars

\* ---- HlsDownloader::download_segments (core/streaming/hls.rs) ---------------
\* and HlsDownloadTool::download_direct (core/tools/hls.rs)
InitHls ==
    /\ fetcher \in {"hls", "hlstool"}
    /\ max_concurrent \in 1..MaxConc
    /\ retry_count \in (IF fetcher = "hls" THEN 0..MaxRetry ELSE {0})
    /\ stateMode = "none"
    /\ state_clone = <<>>
    /\ state = <<>>
    /\ state_file = NoStateFile
    /\ files \in DirContents
    /\ InitCommon

\* stream::iter(segments...).map(...).buffer_unordered(width): the futures are
\* lazy; one starts to run when the stream hands it to the buffer.
HlsStart ==
    /\ fetcher \in {"hls", "hlstool"}
    /\ pc = "init"
    /\ LET tasks == AscSeq(Idx) IN
          /\ buffer' = Pulled(tasks, 0, max_concurrent)
          /\ queue' = Rest(tasks, 0, max_concurrent)
          /\ task' = [i \in Idx |->
                        IF i \in Pulled(tasks, 0, max_concurrent)
                        THEN "ready" ELSE "queued"]
    /\ pc' = "fetching"
    /\ UNCHANGED <<fetcher, max_concurrent, retry_count, stateMode,
                   state_clone, state, state_file, files, handle, requests,
                   deletions, attempts, results, ret, merged,
                   active_downloads>>
    /\ UNCHANGED <<storeVars, runVars, mgrVars, pureVars, directVars>>

\* hls.rs lines 287-294: the loop condition holds and download_segment sends
\* its request.
HlsSend(i) ==
    /\ fetcher = "hls"
    /\ task[i] = "ready"
    /\ attempts[i] < retry_count
    /\ requests' = [requests EXCEPT ![i] = @ + 1]
    /\ task' = [task EXCEPT ![i] = "inflight"]
    /\ UNCHANGED <<fetcher, max_concurrent, retry_count, stateMode,
                   state_clone, state, state_file, files, pc, handle,
                   deletions, attempts, queue, buffer, results, ret, merged,
                   active_downloads>>
    /\ UNCHANGED <<storeVars, runVars, mgrVars, pureVars, directVars>>

\* hls.rs lines 287 and 310-314: the loop condition fails, the worker returns
\* the last error (or the default one).
HlsExhausted(i) ==
    /\ fetcher = "hls"
    /\ task[i] = "ready"
    /\ ~ (attempts[i] < retry_count)
    /\ task' = [task EXCEPT ![i] = "err"]
    /\ UNCHANGED <<fetcher, max_concurrent, retry_count, stateMode,
                   state_clone, state, state_file, files, pc, handle,
                   requests, deletions, attempts, queue, buffer, results, ret,
                   merged, active_downloads>>
    /\ UNCHANGED <<storeVars, runVars, mgrVars, pureVars, directVars>>

\* hls.rs lines 295-297 and 505-516: success status, the body is read whole
\* and written to a freshly created (truncated) file.
HlsSuccess(i) ==
    /\ fetcher = "hls"
    /\ task[i] = "inflight"
    /\ files' = [files EXCEPT ![i] = "full"]
    /\ task' = [task EXCEPT ![i] = "ok"]
    /\ UNCHANGED <<fetcher, max_concurrent, retry_count, stateMode,
                   state_clone, state, state_file, pc, handle, requests,
                   deletions, attempts, queue, buffer, results, ret, merged,
                   active_downloads>>
    /\ UNCHANGED <<storeVars, runVars, mgrVars, pureVars, directVars>>

\* hls.rs lines 298-306: the attempt failed (send error, timeout, non-success
\* status, body error); count it and back off when attempts remain.
HlsFailure(i) ==
    /\ fetcher = "hls"
    /\ task[i] = "inflight"
    /\ attempts' = [attempts EXCEPT ![i] = @ + 1]
    /\ task' = [task EXCEPT ![i] = IF attempts[i] + 1 < retry_count
                                   THEN "backoff" ELSE "ready"]
    /\ UNCHANGED <<fetcher, max_concurrent, retry_count, stateMode,
                   state_clone, state, state_file, files, pc, handle,
                   requests, deletions, queue, buffer, results, ret, merged,
                   active_downloads>>
    /\ UNCHANGED <<storeVars, runVars, mgrVars, pureVars, directVars>>

\* hls.rs line 304: the sleep ends.
HlsBackoff(i) ==
    /\ fetcher = "hls"
    /\ task[i] = "backoff"
    /\ task' = [task EXCEPT ![i] = "ready"]
    /\ UNCHANGED <<fetcher, max_concurrent, retry_count, stateMode,
                   state_clone, state, state_file, files, pc, handle,
                   requests, deletions, attempts, queue, buffer, results, ret,
                   merged, active_downloads>>
    /\ UNCHANGED <<storeVars, runVars, mgrVars, pureVars, directVars>>

\* tools/hls.rs lines 295 and 360-363: the single request of a segment.
ToolSend(i) ==
    /\ fetcher = "hlstool"
    /\ task[i] = "ready"
    /\ requests' = [requests EXCEPT ![i] = @ + 1]
    /\ task' = [task EXCEPT ![i] = "inflight"]
    /\ UNCHANGED <<fetcher, max_concurrent, retry_count, stateMode,
                   state_clone, state, state_file, files, pc, handle,
                   deletions, attempts, queue, buffer, results, ret, merged,
                   active_downloads>>
    /\ UNCHANGED <<storeVars, runVars, mgrVars, pureVars, directVars>>

\* tools/hls.rs lines 365-380: the answer of that request.
ToolAnswer(i, success) ==
    /\ fetcher = "hlstool"
    /\ task[i] = "inflight"
    /\ files' = IF success THEN [files EXCEPT ![i] = "full"] ELSE files
    /\ task' = [task EXCEPT ![i] = IF success THEN "ok" ELSE "err"]
    /\ UNCHANGED <<fetcher, max_concurrent, retry_count, stateMode,
                   state_clone, state, state_file, pc, handle, requests,
                   deletions, attempts, queue, buffer, results, ret, merged,
                   active_downloads>>
    \* downloaded.fetch_add(1, Relaxed), whatever the result is (line 298)
    /\ downloaded' = downloaded + 1
    /\ UNCHANGED <<direct_pc, direct_error, registry, ticker, reports>>
    /\ UNCHANGED <<storeVars, runVars, mgrVars, pureVars>>

\* buffer_unordered + collect: a finished future is yielded and the buffer is
\* refilled, which starts the futures it takes in.
HlsCollect(i) ==
    /\ fetcher \in {"hls", "hlstool"}
    /\ pc = "fetching"
    /\ i \in buffer
    /\ task[i] \in {"ok", "err"}
    /\ results' = Append(results, [index |-> i, ok |-> task[i] = "ok"])
    /\ LET inBuf == Cardinality(buffer) - 1 IN
          /\ buffer' = (buffer \ {i}) \cup Pulled(queue, inBuf, max_concurrent)
          /\ queue' = Rest(queue, inBuf, max_concurrent)
          /\ task' = [j \in Idx |->
                        IF j \in Pulled(queue, inBuf, max_concurrent)
                        THEN "ready" ELSE task[j]]
    /\ UNCHANGED <<fetcher, max_concurrent, retry_count, stateMode,
                   state_clone, state, state_file, files, pc, handle,
                   requests, deletions, attempts, ret, merged,
                   active_downloads>>
    /\ UNCHANGED <<storeVars, runVars, mgrVars, pureVars, directVars>>

\* download_results.sort_by_key(|(idx, _, _)| *idx), hls.rs line 339.
RECURSIVE sort_by_key(_)
sort_by_key(s) ==
    IF s = <<>> THEN <<>>
    ELSE LET m == CHOOSE k \in DOMAIN s :
                     /\ \A j \in DOMAIN s : s[k] <= s[j]
                     /\ \A j \in 1..(k - 1) : s[j] # s[k]
         IN  <<s[m]>> \o sort_by_key(SubSeq(s, 1, m - 1)
                                       \o SubSeq(s, m + 1, Len(s)))

\* An error check that overlooks the failed results.
AnyResultFailedNever == FALSE

ResultIndices == [k \in DOMAIN results |-> results[k].index]

\* `for result in results { match result { ... Err(e) => return Err(e) } }`.
AnyResultFailed == \E k \in DOMAIN results : ~ results[k].ok

\* hls.rs lines 321-363: the first error is returned; otherwise the results
\* are sorted by index and handed to the concat step.
HlsReturn ==
    /\ fetcher = "hls"
    /\ pc = "fetching"
    /\ buffer = {}
    /\ queue = <<>>
    /\ IF AnyResultFailed
       THEN /\ ret' = [kind |-> "err", paths |-> <<>>]
            /\ merged' = merged
       ELSE /\ ret' = [kind |-> "ok", paths |-> sort_by_key(ResultIndices)]
            /\ merged' = sort_by_key(ResultIndices)
    /\ pc' = "returned"
    /\ UNCHANGED <<fetcher, max_concurrent, retry_count, stateMode,
                   state_clone, state, state_file, files, task, handle,
                   requests, deletions, attempts, queue, buffer, results,
                   active_downloads>>
    /\ UNCHANGED <<storeVars, runVars, mgrVars, pureVars, directVars>>

\* FFmpegTool::create_segments_list: the segment files of the directory,
\* sorted by file name (zero-padded index).
create_segments_list == AscSeq({ i \in Idx : files[i] # "absent" })

\* tools/hls.rs lines 318-344: the first error is returned; otherwise ffmpeg
\* concatenates the segment files found in the temp directory.
ToolReturn ==
    /\ fetcher = "hlstool"
    /\ pc = "fetching"
    /\ buffer = {}
    /\ queue = <<>>
    /\ direct_pc \in {"none", "joined"}
    /\ IF AnyResultFailed
       THEN /\ ret' = [kind |-> "err", paths |-> <<>>]
            /\ merged' = merged
       ELSE /\ ret' = [kind |-> "ok", paths |-> create_segments_list]
            /\ merged' = create_segments_list
    /\ pc' = "returned"
    /\ UNCHANGED <<fetcher, max_concurrent, retry_count, stateMode,
                   state_clone, state, state_file, files, task, handle,
                   requests, deletions, attempts, queue, buffer, results,
                   active_downloads>>
    /\ direct_pc' = IF direct_pc = "none" THEN "none" ELSE "returned"
    /\ direct_error' = IF direct_pc = "joined" /\ AnyResultFailed
                       THEN "segments" ELSE direct_error
    /\ UNCHANGED <<registry, downloaded, ticker, reports>>
    /\ UNCHANGED <<storeVars, runVars, mgrVars, pureVars>>

NextHls ==
    \/ HlsStart
    \/ \E i \in Idx : HlsSend(i)
    \/ \E i \in Idx : HlsExhausted(i)
    \/ \E i \in Idx : HlsSuccess(i)
    \/ \E i \in Idx : HlsFailure(i)
    \/ \E i \in Idx : HlsBackoff(i)
    \/ \E i \in Idx : ToolSend(i)
    \/ \E i \in Idx : \E success \in BOOLEAN : ToolAnswer(i, success)
    \/ \E i \in Idx : HlsCollect(i)
    \/ HlsReturn
    \/ ToolReturn

SpecHls == InitHls /\ [][NextHls]_vars

\* ---- all fetchers -----------------------------------------------------------
Init == InitDash \/ InitHls

Next == NextDash \/ NextHls

Spec == Init /\ [][Next]_vars

\* ---- DownloadState on its own (core/tools/dash.rs lines 17-103) ------------
MaxStrLen == 2      \* longest source_url / segment_mapping string tried
MaxIndex == 10      \* largest segment index marked (two decimal digits)

\* Characters of the strings: a plain one and the two serde_json escapes.
Chars == {"a", "\"", "\\"}

RECURSIVE StrsOfLen(_)
StrsOfLen(n) ==
    IF n = 0 THEN { <<>> }
    ELSE { Append(t, c) : t \in StrsOfLen(n - 1), c \in Chars }

Strs == UNION { StrsOfLen(n) : n \in 0..MaxStrLen }

\* serde_json writes a string with `"` and `\` escaped by a backslash.
RECURSIVE format_escaped_str(_)
format_escaped_str(t) ==
    IF t = <<>> THEN <<>>
    ELSE (IF Head(t) \in {"\"", "\\"} THEN <<"\\", Head(t)>> ELSE <<Head(t)>>)
             \o format_escaped_str(Tail(t))

\* serde_json reads a string: a backslash makes the next character literal.
RECURSIVE parse_str(_)
parse_str(t) ==
    IF t = <<>> THEN <<>>
    ELSE IF Head(t) = "\\" /\ Len(t) >= 2
         THEN <<t[2]>> \o parse_str(SubSeq(t, 3, Len(t)))
         ELSE <<Head(t)>> \o parse_str(Tail(t))

Digits == <<"0", "1", "2", "3", "4", "5", "6", "7", "8", "9">>

\* A writer that keeps only the last decimal digit.
itoa_last_digit(n) == <<Digits[(n % 10) + 1]>>

RECURSIVE itoa_digits(_)
itoa_digits(n) ==
    IF n < 10 THEN <<Digits[n + 1]>>
    ELSE Append(itoa_digits(n \div 10), Digits[(n % 10) + 1])

\* serde_json writes an unsigned integer in decimal.
itoa(n) == itoa_digits(n)

DigitVal(c) == CHOOSE d \in 0..9 : Digits[d + 1] = c

\* serde_json reads an unsigned integer.
RECURSIVE parse_integer(_)
parse_integer(t) ==
    IF Len(t) = 1 THEN DigitVal(t[1])
    ELSE parse_integer(SubSeq(t, 1, Len(t) - 1)) * 10 + DigitVal(t[Len(t)])

\* The JSON text as its tokens (white space left out).
Tok(k, v) == [k |-> k, v |-> v]
Punct(c) == Tok("punct", <<c>>)

SerStr(t) == << Tok("string", format_escaped_str(t)) >>
SerNum(n) == << Tok("number", itoa(n)) >>
SerOptBool(o) == << Tok("lit", IF ~ o.some THEN <<"null">>
                               ELSE IF o.value THEN <<"true">>
                               ELSE <<"false">>) >>

RECURSIVE SerNumItems(_)
SerNumItems(q) ==
    IF q = <<>> THEN <<>>
    ELSE IF Len(q) = 1 THEN SerNum(q[1])
    ELSE SerNum(q[1]) \o <<Punct(",")>> \o SerNumItems(Tail(q))

\* Vec<usize>
SerNumArray(q) == <<Punct("[")>> \o SerNumItems(q) \o <<Punct("]")>>

RECURSIVE SerMapItems(_, _)
SerMapItems(m, order) ==
    IF order = <<>> THEN <<>>
    ELSE SerStr(order[1]) \o <<Punct(":")>> \o SerStr(m[order[1]])
           \o (IF Len(order) = 1 THEN <<>> ELSE <<Punct(",")>>)
           \o SerMapItems(m, Tail(order))

\* HashMap<String, String>, written in the map's iteration order
SerMap(m, order) == <<Punct("{")>> \o SerMapItems(m, order) \o <<Punct("}")>>

Field(name, value, last) ==
    SerStr(<<name>>) \o <<Punct(":")>> \o value
       \o (IF last THEN <<>> ELSE <<Punct(",")>>)

\* DownloadOptions (core/types.rs lines 34-64): an integer field, an enum
\* field and an Option field stand for the thirteen fields of these kinds.
SerOptions(o) ==
    <<Punct("{")>>
      \o Field("connections", SerNum(o.connections), FALSE)
      \o Field("format", SerStr(<<o.format>>), FALSE)
      \o Field("use_direct_download", SerOptBool(o.use_direct_download), TRUE)
      \o <<Punct("}")>>

\* serde_json::to_string_pretty(self), save line 61.
to_string_pretty(st, order) ==
    <<Punct("{")>>
      \o Field("source_url", SerStr(st.source_url), FALSE)
      \o Field("output_path", SerStr(st.output_path), FALSE)
      \o Field("completed_segments",
               SerNumArray(st.completed_segments), FALSE)
      \o Field("total_segments", SerNum(st.total_segments), FALSE)
      \o Field("segment_mapping", SerMap(st.segment_mapping, order), FALSE)
      \o Field("options", SerOptions(st.options), TRUE)
      \o <<Punct("}")>>

IsPunct(tok, c) == tok.k = "punct" /\ tok.v = <<c>>

RECURSIVE ParseNumItems(_, _, _)
\* Reads the elements of a number array from position p on: [v, p].
ParseNumItems(toks, p, acc) ==
    IF IsPunct(toks[p], "]") THEN [v |-> acc, p |-> p + 1]
    ELSE IF IsPunct(toks[p], ",") THEN ParseNumItems(toks, p + 1, acc)
    ELSE ParseNumItems(toks, p + 1, Append(acc, parse_integer(toks[p].v)))

RECURSIVE ParseMapItems(_, _, _)
\* Reads `key : value` pairs of a string map from position p on: [v, p].
ParseMapItems(toks, p, acc) ==
    IF IsPunct(toks[p], "}") THEN [v |-> acc, p |-> p + 1]
    ELSE IF IsPunct(toks[p], ",") THEN ParseMapItems(toks, p + 1, acc)
    ELSE ParseMapItems(toks, p + 3,
             (parse_str(toks[p].v) :> parse_str(toks[p + 2].v)) @@ acc)

ParseOptBool(tok) ==
    [some |-> tok.v # <<"null">>, value |-> tok.v = <<"true">>]

\* Reads DownloadOptions, whose text starts at position p: [v, p].
ParseOptions(toks, p) ==
    [v |-> [connections |-> parse_integer(toks[p + 3].v),
            format |-> parse_str(toks[p + 7].v)[1],
            use_direct_download |-> ParseOptBool(toks[p + 11])],
     p |-> p + 13]

\* serde_json::from_str::<DownloadState>(&content), load line 71.
from_str(toks) ==
    LET src  == parse_str(toks[4].v)
        out  == parse_str(toks[8].v)
        done == ParseNumItems(toks, 13, <<>>)
        tot  == parse_integer(toks[done.p + 3].v)
        map  == ParseMapItems(toks, done.p + 8, <<>>)
        opts == ParseOptions(toks, map.p + 3)
    IN  [source_url |-> src,
         output_path |-> out,
         completed_segments |-> done.v,
         total_segments |-> tot,
         segment_mapping |-> map.v,
         options |-> opts.v]

\* DownloadState::new, lines 38-54.
new(source_url, output_path, total_segments, segment_mapping, options) ==
    [source_url |-> source_url,
     output_path |-> output_path,
     completed_segments |-> <<>>,
     total_segments |-> total_segments,
     segment_mapping |-> segment_mapping,
     options |-> options]

DefaultOptions ==
    [connections |-> 16, format |-> "Mp4",
     use_direct_download |-> [some |-> TRUE, value |-> FALSE]]

OptionValues ==
    { DefaultOptions,
      [connections |-> 4, format |-> "Mkv",
       use_direct_download |-> [some |-> FALSE, value |-> FALSE]],
      [connections |-> 16, format |-> "Mp3",
       use_direct_download |-> [some |-> TRUE, value |-> TRUE]] }

MappingValues ==
    { <<>>,
      (<<"a">> :> <<"\"">>),
      (<<"a">> :> <<"a", "\\">>) @@ (<<"\\">> :> <<>>) }

\* Orders in which a HashMap may yield its keys.
KeyOrders(m) ==
    { q \in UNION { [1..n -> DOMAIN m] : n \in {Cardinality(DOMAIN m)} } :
          \A j, k \in DOMAIN q : j # k => q[j] # q[k] }

\* Each argument of new() is varied on its own.
NewArguments ==
    { <<u, <<"a">>, 0, <<>>, DefaultOptions>> : u \in Strs } \cup
    { <<<<"a">>, <<"a">>, n, <<>>, DefaultOptions>> : n \in {0, MaxIndex + 1} }
      \cup
    { <<<<"a">>, <<"a">>, 0, m, DefaultOptions>> : m \in MappingValues } \cup
    { <<<<"a">>, <<"a">>, 0, <<>>, o>> : o \in OptionValues }

MarkIdx == {0, 1, MaxIndex}

\* Output paths: a directory and a file name given as the pieces between its
\* dots ("video.mp4" is <<"video", "mp4">>, ".mp4" is <<"", "mp4">>).
Pieces == {"video", "mp4", "mkv", "json", ""}

FileNames ==
    { q \in UNION { [1..n -> Pieces] : n \in 1..2 } :
          \E k \in DOMAIN q : q[k] # "" }

OutputPaths == { [dir |-> d, name |-> n] : d \in {"out"}, n \in FileNames }

\* PathBuf::set_extension: the part after the last dot of the file name is
\* replaced; a name without a dot, or whose only dot leads it, has no
\* extension and gets one appended.
set_extension(name, ext) ==
    IF Len(name) = 1 \/ (Len(name) = 2 /\ name[1] = "")
    THEN Append(name, ext)
    ELSE Append(SubSeq(name, 1, Len(name) - 1), ext)

\* get_state_file_path, lines 98-103.
get_state_file_path(output_path) ==
    [dir |-> output_path.dir, name |-> set_extension(output_path.name, "json")]

\* No transfer is set up.
FetchIdle ==
    /\ fetcher = "none"
    /\ max_concurrent = 1
    /\ retry_count = 0
    /\ stateMode = "none"
    /\ state_clone = <<>>
    /\ state = <<>>
    /\ state_file = NoStateFile
    /\ files = [i \in Idx |-> "absent"]
    /\ pc = "idle"
    /\ task = [i \in Idx |-> "none"]
    /\ handle = [i \in Idx |-> "none"]
    /\ requests = [i \in Idx |-> 0]
    /\ deletions = [i \in Idx |-> 0]
    /\ attempts = [i \in Idx |-> 0]
    /\ queue = <<>>
    /\ buffer = {}
    /\ results = <<>>
    /\ ret = [kind |-> "none", paths |-> <<>>]
    /\ merged = <<>>
    /\ active_downloads = {}

InitStore ==
    /\ \E a \in NewArguments :
          store_state = new(a[1], a[2], a[3], a[4], a[5])
    /\ store_saved = <<>>
    /\ store_file = [exists |-> FALSE, text |-> <<>>]
    /\ store_loaded = [kind |-> "none"]
    /\ store_paths = <<>>
    /\ store_last = [op |-> "new"]
    /\ FetchIdle
    /\ RunIdle
    /\ MgrIdle
    /\ PureIdle
    /\ DirectIdle

fetchVars == <<fetcher, max_concurrent, retry_count, stateMode, state_clone,
               state, state_file, files, pc, task, handle, requests,
               deletions, attempts, queue, buffer, results, ret, merged,
               active_downloads>>

\* state.mark_segment_completed(index)
StoreMark(index) ==
    /\ store_state' = [store_state EXCEPT !.completed_segments =
                          mark_segment_completed(@, index)]
    /\ store_last' = [op |-> "mark", index |-> index,
                      before |-> store_state.completed_segments]
    /\ UNCHANGED <<store_saved, store_file, store_loaded, store_paths>>
    /\ UNCHANGED <<fetchVars, runVars, mgrVars, pureVars, directVars>>

\* state.save(path), lines 57-66
StoreSave(order) ==
    /\ store_file' = [exists |-> TRUE,
                      text |-> to_string_pretty(store_state, order)]
    /\ store_saved' = store_state
    /\ store_loaded' = [kind |-> "none"]
    /\ store_last' = [op |-> "save"]
    /\ UNCHANGED <<store_state, store_paths>>
    /\ UNCHANGED <<fetchVars, runVars, mgrVars, pureVars, directVars>>

\* DownloadState::load(path), lines 69-74
StoreLoad ==
    /\ store_loaded' = IF store_file.exists
                       THEN [kind |-> "ok",
                             value |-> from_str(store_file.text)]
                       ELSE [kind |-> "err"]
    /\ store_last' = [op |-> "load"]
    /\ UNCHANGED <<store_state, store_saved, store_file, store_paths>>
    /\ UNCHANGED <<fetchVars, runVars, mgrVars, pureVars, directVars>>

\* get_state_file_path(&output_path) for two output paths
StoreKey ==
    /\ DOMAIN store_paths = {"a", "b"}
    /\ store_paths' = [a |-> store_paths.a, b |-> store_paths.b,
                       key_a |-> get_state_file_path(store_paths.a),
                       key_b |-> get_state_file_path(store_paths.b)]
    /\ store_last' = [op |-> "keys"]
    /\ UNCHANGED <<store_state, store_saved, store_file, store_loaded>>
    /\ UNCHANGED <<fetchVars, runVars, mgrVars, pureVars, directVars>>

NextStore ==
    \/ \E index \in MarkIdx : StoreMark(index)
    \/ \E order \in KeyOrders(store_state.segment_mapping) : StoreSave(order)
    \/ StoreLoad

SpecStore == InitStore /\ [][NextStore]_vars

InitPaths ==
    /\ \E a, b \in OutputPaths : store_paths = [a |-> a, b |-> b]
    /\ store_last = [op |-> "paths"]
    /\ store_state = <<>>
    /\ store_saved = <<>>
    /\ store_file = [exists |-> FALSE, text |-> <<>>]
    /\ store_loaded = [kind |-> "none"]
    /\ FetchIdle
    /\ RunIdle
    /\ MgrIdle
    /\ PureIdle
    /\ DirectIdle

NextPaths == StoreKey

SpecPaths == InitPaths /\ [][NextPaths]_vars

\* ---- DashDownloadTool::download_dash (core/tools/dash.rs 424-580) ----------
\* The arguments of the call.
RunUrl == "mpd_url"
RunOut == "output_path"

\* DownloadState::new(mpd_url, output_path, 0, HashMap::new(), options),
\* lines 439-445 and 456-462.
NewRunState ==
    [source_url |-> RunUrl, output_path |-> RunOut, total_segments |-> 0]

\* A check that takes every state file for the file of this download.
StateMismatchNever(f) == FALSE

\* Line 438: the state file belongs to another URL or another output path.
StateMismatch(f) == f.source_url # RunUrl \/ f.output_path # RunOut

\* The local variables of one download_segments_parallel call; the segment
\* directory lies in a new temporary directory (lines 482-489).
FetchLocalsFresh ==
    /\ files' = [i \in Idx |-> "absent"]
    /\ task' = [i \in Idx |-> "none"]
    /\ handle' = [i \in Idx |-> "none"]
    /\ requests' = [i \in Idx |-> 0]
    /\ deletions' = [i \in Idx |-> 0]
    /\ attempts' = [i \in Idx |-> 0]
    /\ queue' = <<>>
    /\ buffer' = {}
    /\ results' = <<>>
    /\ ret' = [kind |-> "none", paths |-> <<>>]
    /\ merged' = <<>>
    /\ active_downloads' = {}

\* What lies at the state file path before the call: nothing, a file that
\* cannot be read or parsed, or a file written by an earlier call (always with
\* total_segments 0) for this or for another download.
InitRun ==
    /\ fetcher = "dash"
    /\ max_concurrent \in 1..MaxConc
    /\ retry_count = 0
    /\ stateMode \in {"shared", "cloned"}
    /\ \/ /\ state_file = NoStateFile
          /\ run_file = AbsentFile
       \/ /\ state_file = save(<<>>)
          /\ run_file = [AbsentFile EXCEPT !.kind = "corrupt"]
       \/ \E done \in SUBSET Idx :
             /\ state_file = save(AscSeq(done))
             /\ run_file = SavedFields(NewRunState)
       \/ \E other \in { [NewRunState EXCEPT !.source_url = "other_url"],
                         [NewRunState EXCEPT !.output_path = "other_path"] } :
             /\ state_file = save(AscSeq(Idx))
             /\ run_file = SavedFields(other)
    /\ state = <<>>
    /\ state_clone = <<>>
    /\ run_state = NoStateFields
    /\ run_file0 = run_file
    /\ run_pc = "begin"
    /\ RunLocalsFresh
    /\ files = [i \in Idx |-> "absent"]
    /\ pc = "idle"
    /\ task = [i \in Idx |-> "none"]
    /\ handle = [i \in Idx |-> "none"]
    /\ requests = [i \in Idx |-> 0]
    /\ deletions = [i \in Idx |-> 0]
    /\ attempts = [i \in Idx |-> 0]
    /\ queue = <<>>
    /\ buffer = {}
    /\ results = <<>>
    /\ ret = [kind |-> "none", paths |-> <<>>]
    /\ merged = <<>>
    /\ active_downloads = {}
    /\ StoreIdle
    /\ MgrIdle
    /\ PureIdle
    /\ DirectIdle

\* Lines 432-463: the state file is loaded when it exists (an error of load
\* is returned by `?`), replaced by a new state when it belongs to another
\* download, and a new state is made when there is no file.
RunLoad ==
    /\ run_pc = "begin"
    /\ IF ~ state_file.exists
       THEN /\ state' = <<>>
            /\ run_state' = NewRunState
            /\ run_pc' = "plan"
            /\ run_error' = run_error
       ELSE IF run_file.kind = "corrupt"
       THEN /\ run_pc' = "done_err"
            /\ run_error' = "state_load"
            /\ UNCHANGED <<state, run_state>>
       ELSE IF StateMismatch(run_file)
       THEN /\ state' = <<>>
            /\ run_state' = NewRunState
            /\ run_pc' = "plan"
            /\ run_error' = run_error
       ELSE /\ state' = state_file.completed
            /\ run_state' = [source_url |-> run_file.source_url,
                             output_path |-> run_file.output_path,
                             total_segments |-> run_file.total_segments]
            /\ run_pc' = "plan"
            /\ run_error' = run_error
    /\ state_clone' = state'
    /\ run_file0' = run_file0
    /\ UNCHANGED <<fetcher, max_concurrent, retry_count, stateMode,
                   state_file, files, pc, task, handle, requests, deletions,
                   attempts, queue, buffer, results, ret, merged,
                   active_downloads>>
    /\ UNCHANGED <<run_plan, run_file, run_marked, run_saved, output_file,
                   video_paths>>
    /\ UNCHANGED <<storeVars, mgrVars, pureVars, directVars>>

\* Lines 464-489: parse_mpd, the period, select_best_representation and the
\* temporary directories; each may end the call with an error.
RunPlan(outcome, plan) ==
    /\ run_pc = "plan"
    /\ IF outcome # "ok"
       THEN /\ run_pc' = "done_err"
            /\ run_error' = outcome
            /\ UNCHANGED <<run_plan, pc>>
       ELSE /\ run_plan' = plan
            /\ run_pc' = IF plan.video THEN "video" ELSE "audio"
            /\ pc' = "init"
            /\ run_error' = run_error
    /\ UNCHANGED <<fetcher, max_concurrent, retry_count, stateMode,
                   state_clone, state, state_file, files, task, handle,
                   requests, deletions, attempts, queue, buffer, results, ret,
                   merged, active_downloads>>
    /\ UNCHANGED <<run_file0, run_state, run_file, run_marked, run_saved,
                   output_file, video_paths>>
    /\ UNCHANGED <<storeVars, mgrVars, pureVars, directVars>>

Plans ==
    { [video |-> TRUE, audio |-> FALSE], [video |-> FALSE, audio |-> TRUE],
      [video |-> TRUE, audio |-> TRUE] }

\* `temp_dir` (line 482) is a tempfile::TempDir: when it goes out of scope, on
\* every return after line 482 and at line 577, the directory is removed with
\* the segment files in it.
DropTempDir == [i \in Idx |-> "absent"]

\* Lines 507-517 and 530-540: `download_segments_parallel(..).await?`, then
\* `merge_segments(..).await?`, which fails on an empty list (line 373) or
\* when ffmpeg fails; after the video the audio call follows.
RunSegmentsReturned(ffmpeg_ok) ==
    /\ run_pc \in {"video", "audio"}
    /\ pc = "returned"
    /\ IF ret.kind = "err" \/ ret.paths = <<>> \/ ~ ffmpeg_ok
       THEN /\ run_pc' = "done_err"
            /\ run_error' = IF ret.kind = "err" THEN "segments" ELSE "merge"
            /\ files' = DropTempDir
            /\ UNCHANGED <<fetcher, max_concurrent, retry_count, stateMode,
                           state_clone, state, state_file, pc, task, handle,
                           requests, deletions, attempts, queue, buffer,
                           results, ret, merged, active_downloads,
                           video_paths>>
       ELSE IF run_pc = "video" /\ run_plan.audio
       THEN /\ run_pc' = "audio"
            /\ run_error' = run_error
            /\ video_paths' = ret.paths
            /\ pc' = "init"
            /\ state_clone' = state
            /\ FetchLocalsFresh
            /\ UNCHANGED <<fetcher, max_concurrent, retry_count, stateMode,
                           state, state_file>>
       ELSE /\ run_pc' = "final"
            /\ run_error' = run_error
            /\ video_paths' = IF run_pc = "video" THEN ret.paths
                              ELSE video_paths
            /\ UNCHANGED fetchVars
    /\ UNCHANGED <<run_file0, run_plan, run_state, run_file, run_marked,
                   run_saved, output_file>>
    /\ UNCHANGED <<storeVars, mgrVars, pureVars, directVars>>

\* A mux whose failure does not end the call.
ReachesRemovalAlways(mux_ok) == TRUE

\* Lines 558, 562 and 566: the `?` on ffmpeg.execute / fs::copy returns the
\* error before the removal of the state file is reached.
ReachesRemoval(mux_ok) == mux_ok

\* Lines 542-579: the streams are muxed or copied to output_path, then the
\* state file is removed when it exists, then Ok(()) is returned.
RunFinal(mux_ok, remove_ok) ==
    /\ run_pc = "final"
    /\ IF ~ ReachesRemoval(mux_ok)
       THEN /\ run_pc' = "done_err"
            /\ run_error' = "mux"
            /\ UNCHANGED <<output_file, state_file, run_file>>
       ELSE IF state_file.exists /\ ~ remove_ok
       THEN /\ run_pc' = "done_err"
            /\ run_error' = "remove_file"
            /\ output_file' = mux_ok
            /\ UNCHANGED <<state_file, run_file>>
       ELSE /\ run_pc' = IF mux_ok THEN "done_ok" ELSE "done_err"
            /\ run_error' = IF mux_ok THEN run_error ELSE "mux"
            /\ output_file' = mux_ok
            /\ state_file' = NoStateFile
            /\ run_file' = AbsentFile
    /\ files' = DropTempDir
    /\ UNCHANGED <<fetcher, max_concurrent, retry_count, stateMode,
                   state_clone, state, pc, task, handle, requests,
                   deletions, attempts, queue, buffer, results, ret, merged,
                   active_downloads>>
    /\ UNCHANGED <<run_file0, run_plan, run_state, run_marked, run_saved,
                   video_paths>>
    /\ UNCHANGED <<storeVars, mgrVars, pureVars, directVars>>

\* The segment files lie in a new directory, so no request carries a Range
\* header and no 416 is answered.
NextRun ==
    \/ RunLoad
    \/ \E outcome \in {"ok", "parse_mpd", "no_representation"} :
          \E plan \in Plans : RunPlan(outcome, plan)
    \/ \E ffmpeg_ok \in BOOLEAN : RunSegmentsReturned(ffmpeg_ok)
    \/ \E mux_ok, remove_ok \in BOOLEAN : RunFinal(mux_ok, remove_ok)
    \/ DashStart
    \/ \E i \in Idx : DashSend(i)
    \/ \E i \in Idx : DashFailure(i)
    \/ \E i \in Idx : \E status \in {"200", "206"} : \E whole \in BOOLEAN :
          DashBody(i, status, whole)
    \/ \E i \in Idx : DashTaskEnd(i)
    \/ \E i \in Idx : DashCollect(i)
    \/ DashReturn

SpecRun == InitRun /\ [][NextRun]_vars

\* ---- DownloadManager (core/downloader/mod.rs) ------------------------------
\* StreamingOptions::default(), streaming/common.rs lines 71-72.
DefaultMaxConcurrent == 4
DefaultRetryCount == 3

\* start_download has returned: the entry is in the map with status
\* Initializing (lines 205-229) and the worker is spawned (line 238) for an
\* HLS URL, with a temporary directory named after the new download id.
InitMgr ==
    /\ download_status = "Initializing"
    /\ mgr_pc = "spawned"
    /\ mgr_mutex = "free"
    /\ content_type \in {"HLS", "MP4"}
    /\ convert_to_h265 \in (IF content_type = "HLS" THEN BOOLEAN ELSE {FALSE})
    /\ error_message = FALSE
    /\ mgr_cancelled = FALSE
    /\ fetcher = "hls"
    /\ max_concurrent = DefaultMaxConcurrent
    /\ retry_count = DefaultRetryCount
    /\ stateMode = "none"
    /\ state_clone = <<>>
    /\ state = <<>>
    /\ state_file = NoStateFile
    /\ files = [i \in Idx |-> "absent"]
    /\ pc = "idle"
    /\ task = [i \in Idx |-> "none"]
    /\ handle = [i \in Idx |-> "none"]
    /\ requests = [i \in Idx |-> 0]
    /\ deletions = [i \in Idx |-> 0]
    /\ attempts = [i \in Idx |-> 0]
    /\ queue = <<>>
    /\ buffer = {}
    /\ results = <<>>
    /\ ret = [kind |-> "none", paths |-> <<>>]
    /\ merged = <<>>
    /\ active_downloads = {}
    /\ StoreIdle
    /\ RunIdle
    /\ PureIdle
    /\ DirectIdle

\* Lines 240-256: the worker locks `downloads` and sets Downloading.
MgrWorkerBegin ==
    /\ mgr_pc = "spawned"
    /\ content_type = "HLS"
    /\ mgr_mutex = "free"
    /\ download_status' = "Downloading"
    /\ mgr_pc' = "manifest"
    /\ UNCHANGED <<mgr_mutex, convert_to_h265, content_type, error_message,
                   mgr_cancelled>>
    /\ UNCHANGED <<fetchVars, storeVars, runVars, pureVars, directVars>>

\* download_stream, streaming/hls.rs lines 154-181: the manifest is fetched
\* and parsed (an error is returned), then download_segments is called.
MgrManifest(manifest_ok) ==
    /\ mgr_pc = "manifest"
    /\ IF manifest_ok
       THEN /\ mgr_pc' = "segments"
            /\ pc' = "init"
       ELSE /\ mgr_pc' = "failed"
            /\ pc' = pc
    /\ UNCHANGED <<fetcher, max_concurrent, retry_count, stateMode,
                   state_clone, state, state_file, files, task, handle,
                   requests, deletions, attempts, queue, buffer, results, ret,
                   merged, active_downloads>>
    /\ UNCHANGED <<mgr_mutex, convert_to_h265, content_type, error_message,
                   mgr_cancelled, download_status>>
    /\ UNCHANGED <<storeVars, runVars, pureVars, directVars>>

\* download_segments has gathered its results: the first error is returned,
\* otherwise the segments are concatenated, which may fail as well
\* (streaming/hls.rs lines 321-384); line 258 matches on the result.
MgrStreamReturned(concat_ok) ==
    /\ mgr_pc = "segments"
    /\ pc = "returned"
    /\ mgr_pc' = IF ret.kind = "ok" /\ concat_ok THEN "succeeded" ELSE "failed"
    /\ UNCHANGED <<mgr_mutex, convert_to_h265, content_type, error_message,
                   mgr_cancelled, download_status>>
    /\ UNCHANGED <<fetchVars, storeVars, runVars, pureVars, directVars>>

\* Lines 259-307: the Ok arm locks `downloads` and sets Completed. With the
\* H.265 conversion it locks the same mutex again while the first guard is
\* alive (lines 261 and 272); that second lock never returns: the thread
\* blocks for ever or panics, which poisons the mutex.
MgrWorkerOk(second_lock) ==
    /\ mgr_pc = "succeeded"
    /\ mgr_mutex = "free"
    /\ download_status' = "Completed"
    /\ IF convert_to_h265
       THEN /\ mgr_mutex' = second_lock
            /\ mgr_pc' = "stuck"
       ELSE /\ mgr_mutex' = mgr_mutex
            /\ mgr_pc' = "finished_ok"
    /\ UNCHANGED <<convert_to_h265, content_type, error_message,
                   mgr_cancelled>>
    /\ UNCHANGED <<fetchVars, storeVars, runVars, pureVars, directVars>>

\* Lines 308-317: the Err arm locks `downloads` and sets Error.
MgrWorkerErr ==
    /\ mgr_pc = "failed"
    /\ mgr_mutex = "free"
    /\ download_status' = "Error"
    /\ error_message' = TRUE
    /\ mgr_pc' = "finished_err"
    /\ UNCHANGED <<mgr_mutex, convert_to_h265, content_type, mgr_cancelled>>
    /\ UNCHANGED <<fetchVars, storeVars, runVars, pureVars, directVars>>

\* cancel_download, lines 571-581: locks `downloads` (lock().unwrap() neither
\* returns on a mutex held for ever nor on a poisoned one), sets Cancelled and
\* returns Ok.
cancel_download ==
    /\ download_status # "none"
    /\ mgr_mutex = "free"
    /\ download_status' = "Cancelled"
    /\ mgr_cancelled' = TRUE
    /\ UNCHANGED <<mgr_pc, mgr_mutex, convert_to_h265, content_type,
                   error_message>>
    /\ UNCHANGED <<fetchVars, storeVars, runVars, pureVars, directVars>>

\* download_http_file, lines 457-464: the status is set to Downloading.
HttpBegin ==
    /\ mgr_pc = "spawned"
    /\ content_type = "MP4"
    /\ mgr_mutex = "free"
    /\ download_status' = "Downloading"
    /\ mgr_pc' = "head"
    /\ UNCHANGED <<mgr_mutex, convert_to_h265, content_type, error_message,
                   mgr_cancelled>>
    /\ UNCHANGED <<fetchVars, storeVars, runVars, pureVars, directVars>>

\* Line 467: `client.head(url).send().await?`; the worker only logs the
\* error that `?` returns (lines 439-441).
HttpHead(sent) ==
    /\ mgr_pc = "head"
    /\ mgr_pc' = IF sent THEN "get" ELSE "finished_err"
    /\ UNCHANGED <<mgr_mutex, convert_to_h265, content_type, error_message,
                   mgr_cancelled, download_status>>
    /\ UNCHANGED <<fetchVars, storeVars, runVars, pureVars, directVars>>

\* Lines 480-491: `client.get(url).send().await?`; a response without a
\* success status sets Error and error_message before the error is returned.
HttpGet(outcome) ==
    /\ mgr_pc = "get"
    /\ IF outcome = "status_error"
       THEN /\ mgr_mutex = "free"
            /\ download_status' = "Error"
            /\ error_message' = TRUE
            /\ mgr_pc' = "finished_err"
       ELSE /\ mgr_pc' = IF outcome = "ok" THEN "body" ELSE "finished_err"
            /\ UNCHANGED <<download_status, error_message>>
    /\ UNCHANGED <<mgr_mutex, convert_to_h265, content_type, mgr_cancelled>>
    /\ UNCHANGED <<fetchVars, storeVars, runVars, pureVars, directVars>>

\* Lines 493-556: create_dir_all, File::create, each chunk and each write_all
\* leave through `?`; after the last chunk the status is set to Completed.
HttpBody(written) ==
    /\ mgr_pc = "body"
    /\ IF written
       THEN /\ mgr_mutex = "free"
            /\ download_status' = "Completed"
            /\ mgr_pc' = "finished_ok"
       ELSE /\ mgr_pc' = "finished_err"
            /\ download_status' = download_status
    /\ UNCHANGED <<mgr_mutex, convert_to_h265, content_type, error_message,
                   mgr_cancelled>>
    /\ UNCHANGED <<fetchVars, storeVars, runVars, pureVars, directVars>>

NextMgr ==
    \/ MgrWorkerBegin
    \/ HttpBegin
    \/ \E sent \in BOOLEAN : HttpHead(sent)
    \/ \E outcome \in {"ok", "send_error", "status_error"} : HttpGet(outcome)
    \/ \E written \in BOOLEAN : HttpBody(written)
    \/ \E manifest_ok \in BOOLEAN : MgrManifest(manifest_ok)
    \/ \E concat_ok \in BOOLEAN : MgrStreamReturned(concat_ok)
    \/ \E second_lock \in {"deadlocked", "poisoned"} : MgrWorkerOk(second_lock)
    \/ MgrWorkerErr
    \/ cancel_download
    \/ HlsStart
    \/ \E i \in Idx : HlsSend(i)
    \/ \E i \in Idx : HlsExhausted(i)
    \/ \E i \in Idx : HlsSuccess(i)
    \/ \E i \in Idx : HlsFailure(i)
    \/ \E i \in Idx : HlsBackoff(i)
    \/ \E i \in Idx : HlsCollect(i)
    \/ HlsReturn

SpecMgr == InitMgr /\ [][NextMgr]_vars

\* ---- quality selection (core/streaming/hls.rs 184-238, dash.rs 255-358) ----
MaxVariants == 2    \* longest variant / representation list tried
MaxDim == 2         \* largest width and height tried

\* Option<(u32, u32)>: <<>> is None, <<w, h>> is Some((w, h)).
ResolutionValues == { <<>> } \cup { <<w, h>> : w, h \in 1..MaxDim }

\* bandwidth in bits per second
Bandwidths == {1000, 2000}

\* Option<u64> in kbps: <<>> is None, <<n>> is Some(n).
BitrateValues == { <<>>, <<1>>, <<2>> }

Variants == [resolution : ResolutionValues, bandwidth : Bandwidths]

VariantLists == UNION { [1..n -> Variants] : n \in 1..MaxVariants }

SelectionOptions ==
    [max_resolution : ResolutionValues, min_resolution : ResolutionValues,
     max_bitrate : BitrateValues, min_bitrate : BitrateValues]

\* `a.resolution.map(|(w, h)| w * h).unwrap_or(0)`, hls.rs line 232.
PixelArea(v) ==
    IF v.resolution = <<>> THEN 0 ELSE v.resolution[1] * v.resolution[2]

\* hls.rs lines 193-201: the closure given to retain for max_resolution.
WithinMaxResolution(v, max_res) ==
    IF v.resolution # <<>>
    THEN v.resolution[1] <= max_res[1] /\ v.resolution[2] <= max_res[2]
    ELSE TRUE

\* hls.rs lines 204-212: the closure given to retain for min_resolution.
WithinMinResolution(v, min_res) ==
    IF v.resolution # <<>>
    THEN v.resolution[1] >= min_res[1] /\ v.resolution[2] >= min_res[2]
    ELSE TRUE

\* Filters that overlook min_bitrate.
retain_bitrate_max_only(list, options) ==
    IF options.max_bitrate # <<>>
    THEN SelectSeq(list, LAMBDA v :
             v.bandwidth <= options.max_bitrate[1] * 1000)
    ELSE list

\* hls.rs lines 215-222: the two bitrate filters.
retain_bitrate(list, options) ==
    LET f3 == IF options.max_bitrate # <<>>
              THEN SelectSeq(list, LAMBDA v :
                       v.bandwidth <= options.max_bitrate[1] * 1000)
              ELSE list
    IN  IF options.min_bitrate # <<>>
        THEN SelectSeq(f3, LAMBDA v :
                 v.bandwidth >= options.min_bitrate[1] * 1000)
        ELSE f3

\* hls.rs lines 190-222: the four retain calls in their order.
retain_all(list, options) ==
    LET f1 == IF options.max_resolution # <<>>
              THEN SelectSeq(list, LAMBDA v :
                       WithinMaxResolution(v, options.max_resolution))
              ELSE list
        f2 == IF options.min_resolution # <<>>
              THEN SelectSeq(f1, LAMBDA v :
                       WithinMinResolution(v, options.min_resolution))
              ELSE f1
    IN  retain_bitrate(f2, options)

\* hls.rs lines 225-227: `if filtered_variants.is_empty()` the input list is
\* used.
or_original(filtered, original) ==
    IF filtered = <<>> THEN original ELSE filtered

\* The element a stable sort by descending pixel area puts first: the first
\* element of the list among those of the largest area (hls.rs 231-237).
first_by_area(list) ==
    list[CHOOSE k \in DOMAIN list :
            /\ \A j \in DOMAIN list : PixelArea(list[j]) <= PixelArea(list[k])
            /\ \A j \in 1..(k - 1) : PixelArea(list[j]) < PixelArea(list[k])]

\* The same for `b.bandwidth.cmp(&a.bandwidth)`, dash.rs lines 340-342.
first_by_bandwidth(list) ==
    list[CHOOSE k \in DOMAIN list :
            /\ \A j \in DOMAIN list : list[j].bandwidth <= list[k].bandwidth
            /\ \A j \in 1..(k - 1) : list[j].bandwidth < list[k].bandwidth]

\* HlsDownloader::select_best_variant; `first().unwrap()` panics on an empty
\* input list, which download_stream excludes (hls.rs lines 165-167).
select_best_variant(variants, options) ==
    [kind |-> "ok",
     value |-> first_by_area(or_original(retain_all(variants, options),
                                         variants))]

\* The audio representations tried: bandwidth alone matters for them.
AudioLists ==
    { <<>>,
      << [resolution |-> <<>>, bandwidth |-> 1000] >>,
      << [resolution |-> <<>>, bandwidth |-> 1000],
         [resolution |-> <<>>, bandwidth |-> 2000] >>,
      << [resolution |-> <<>>, bandwidth |-> 2000],
         [resolution |-> <<>>, bandwidth |-> 1000] >> }

\* The adaptation sets of one kind: none, or a first one with its
\* representations (select_best_quality reads the first only).
Adaptations(lists) == { <<>> } \cup { <<l>> : l \in lists }

QualityOptions ==
    [max_resolution : ResolutionValues, min_resolution : { <<>> },
     max_bitrate : BitrateValues, min_bitrate : { <<>> },
     audio_only : BOOLEAN, video_only : BOOLEAN]

\* A selector that looks for video whatever audio_only says.
selects_video_whenever_present(manifest, options) ==
    manifest.video_adaptations # <<>>

\* dash.rs line 261.
selects_video(manifest, options) ==
    ~ options.audio_only /\ manifest.video_adaptations # <<>>

\* dash.rs line 318.
selects_audio(manifest, options) ==
    ~ options.video_only /\ manifest.audio_adaptations # <<>>

\* DashDownloader::select_best_quality, dash.rs lines 255-358; an Option is
\* <<>> for None and <<r>> for Some(r).
select_best_quality(manifest, options) ==
    LET selected_video ==
            IF selects_video(manifest, options)
            THEN LET all == manifest.video_adaptations[1]
                     representations ==
                         or_original(retain_all(all, options), all)
                 IN  IF representations = <<>> THEN <<>>
                     ELSE << first_by_area(representations) >>
            ELSE <<>>
        selected_audio ==
            IF selects_audio(manifest, options)
            THEN LET all == manifest.audio_adaptations[1]
                     representations ==
                         or_original(retain_bitrate(all, options), all)
                 IN  IF representations = <<>> THEN <<>>
                     ELSE << first_by_bandwidth(representations) >>
            ELSE <<>>
    IN  IF selected_video = <<>> /\ selected_audio = <<>>
        THEN [kind |-> "err", video |-> <<>>, audio |-> <<>>]
        ELSE [kind |-> "ok", video |-> selected_video,
              audio |-> selected_audio]

InitSelect ==
    /\ \/ \E l \in VariantLists, o \in SelectionOptions :
             input = [fn |-> "select_best_variant", variants |-> l,
                      options |-> o]
       \/ \E v \in Adaptations(VariantLists \cup { <<>> }),
             a \in Adaptations(AudioLists), o \in QualityOptions :
             input = [fn |-> "select_best_quality",
                      manifest |-> [video_adaptations |-> v,
                                    audio_adaptations |-> a],
                      options |-> o]
    /\ output = <<>>
    /\ FetchIdle
    /\ StoreIdle
    /\ RunIdle
    /\ MgrIdle
    /\ DirectIdle

\* self.select_best_variant(&master.variants, &options), hls.rs line 170
SelectBestVariant ==
    /\ input # <<>>
    /\ input.fn = "select_best_variant"
    /\ output = <<>>
    /\ output' = select_best_variant(input.variants, input.options)
    /\ UNCHANGED input
    /\ UNCHANGED <<fetchVars, storeVars, runVars, mgrVars, directVars>>

\* self.select_best_quality(&manifest, &options)
SelectBestQuality ==
    /\ input # <<>>
    /\ input.fn = "select_best_quality"
    /\ output = <<>>
    /\ output' = select_best_quality(input.manifest, input.options)
    /\ UNCHANGED input
    /\ UNCHANGED <<fetchVars, storeVars, runVars, mgrVars, directVars>>

NextSelect == SelectBestVariant \/ SelectBestQuality

SpecSelect == InitSelect /\ [][NextSelect]_vars

\* ---- MPD representations (core/tools/dash.rs 150-226, 675-804) -------------
MaxReps == 2        \* longest representation list tried
MaxTimeline == 2    \* longest SegmentTimeline tried
MaxRepeat == 2      \* largest S@r tried
MaxStart == 9       \* largest startNumber tried

DefaultVideoHeight == 720    \* options.video_height.unwrap_or(720)
AssumedSegments == 100       \* let end = start + 100

\* A String is the sequence of its pieces; Option<T>: <<>> is None, <<x>> is
\* Some(x).
unwrap_or(o, d) == IF o = <<>> THEN d ELSE o[1]

starts_with_http(s) == s # <<>> /\ s[1] = "http"

\* str::replace: every occurrence of the piece `from` becomes `to`.
RECURSIVE replace(_, _, _)
replace(s, from, to) ==
    IF s = <<>> THEN <<>>
    ELSE (IF Head(s) = from THEN to ELSE <<Head(s)>>)
            \o replace(Tail(s), from, to)

\* u32::to_string
to_string(n) == itoa_digits(n)

BaseUrl == <<"http", "://host/">>

InitValues ==
    { <<>>, << <<"$RepresentationID$", "/init.mp4">> >>,
      << <<"http", "://cdn/init.mp4">> >> }

MediaValues ==
    { <<>>, << <<"$RepresentationID$", "/", "$Number$", ".m4s">> >>,
      << <<"http", "://cdn/", "$Number$">> >> }

StartNumbers == { <<>>, <<0>>, <<MaxStart>> }

\* Option<i32>: S@r
Repeats == { <<>> } \cup { <<r>> : r \in -1..MaxRepeat }

TimelineSegments == [repeat : Repeats]

Timelines ==
    { <<>> } \cup
    { <<[segments |-> l]>> :
        l \in UNION { [1..n -> TimelineSegments] : n \in 0..MaxTimeline } }

SegmentTemplates ==
    [initialization : InitValues, media : MediaValues,
     start_number : StartNumbers, duration : { <<>>, <<4>> },
     timescale : { <<>>, <<1>> }, segment_timeline : Timelines]

\* a template with a timeline of two S elements, the second repeated once
TimelineTemplate ==
    [initialization |-> << <<"$RepresentationID$", "/init.mp4">> >>,
     media |-> << <<"$RepresentationID$", "/", "$Number$", ".m4s">> >>,
     start_number |-> <<>>, duration |-> <<>>, timescale |-> <<>>,
     segment_timeline |->
        <<[segments |-> <<[repeat |-> <<>>], [repeat |-> <<1>>]>>]>>]

\* a template that names an initialization segment and no media
InitOnlyTemplate ==
    [TimelineTemplate EXCEPT !.media = <<>>, !.segment_timeline = <<>>]

SegmentLists ==
    { <<>>,
      <<[segment_urls |-> <<[media |-> <<"a.m4s">>],
                            [media |-> <<"http", "://cdn/b.m4s">>]>>]>> }

Heights == { <<>>, <<480>>, <<720>>, <<1080>> }

AudioBandwidths == { <<>>, <<128000>> }

\* the segment information of a Representation
SegmentInfos ==
    { [segment_template |-> <<>>, segment_list |-> <<>>],
      [segment_template |-> <<InitOnlyTemplate>>, segment_list |-> <<>>],
      [segment_template |-> <<TimelineTemplate>>, segment_list |-> <<>>],
      [segment_template |-> <<>>,
       segment_list |-> CHOOSE l \in SegmentLists : l # <<>>] }

Representation(id, height, bandwidth, info) ==
    [id |-> id, height |-> height, bandwidth |-> bandwidth,
     segment_template |-> info.segment_template,
     segment_list |-> info.segment_list]

\* Representation@id is unique within a Period.
VideoId(k) == <<"v", to_string(k)>>

AudioId(k) == <<"a", to_string(k)>>

VideoRepresentationLists ==
    UNION { { [k \in 1..n |-> Representation(VideoId(k), h[k], <<>>, s[k])] :
                h \in [1..n -> Heights], s \in [1..n -> SegmentInfos] } :
            n \in 1..MaxReps }

AudioRepresentationLists ==
    { <<>> } \cup
    { <<Representation(AudioId(1), <<>>, b, s)>> :
        b \in AudioBandwidths, s \in SegmentInfos }

AdaptationSet(kind, representations, segment_template) ==
    [content_type |-> kind, representations |-> representations,
     segment_template |-> segment_template]

\* dash.rs 685-689: content_type stands for what contentType and mimeType
\* say together.
is_video(adaptation_set) == adaptation_set.content_type = "video"

is_audio(adaptation_set) == adaptation_set.content_type = "audio"

\* dash.rs 693-701: the loop over the representations of a video set
RECURSIVE best_video_of(_, _, _)
best_video_of(representations, target_height, best_video) ==
    IF representations = <<>> THEN best_video
    ELSE LET rep == Head(representations)
             best_height == unwrap_or(best_video[1].height, 0)
             better ==
                 IF rep.height = <<>> THEN FALSE
                 ELSE \/ best_video = <<>>
                      \/ /\ rep.height[1] <= target_height
                         /\ rep.height[1] > best_height
                      \/ /\ best_height > target_height
                         /\ rep.height[1] < best_height
         IN best_video_of(Tail(representations), target_height,
                          IF better THEN <<rep>> ELSE best_video)

\* dash.rs 704-710: the loop over the representations of an audio set
RECURSIVE best_audio_of(_, _)
best_audio_of(representations, best_audio) ==
    IF representations = <<>> THEN best_audio
    ELSE LET rep == Head(representations)
             better ==
                 IF rep.bandwidth = <<>> THEN FALSE
                 ELSE \/ best_audio = <<>>
                      \/ rep.bandwidth[1]
                            > unwrap_or(best_audio[1].bandwidth, 0)
         IN best_audio_of(Tail(representations),
                          IF better THEN <<rep>> ELSE best_audio)

RECURSIVE select_best_from(_, _, _, _)
select_best_from(adaptation_sets, target_height, best_video, best_audio) ==
    IF adaptation_sets = <<>>
    THEN [video |-> best_video, audio |-> best_audio]
    ELSE LET a == Head(adaptation_sets)
         IN select_best_from(
                Tail(adaptation_sets), target_height,
                IF is_video(a)
                THEN best_video_of(a.representations, target_height,
                                   best_video)
                ELSE best_video,
                IF ~ is_video(a) /\ is_audio(a)
                THEN best_audio_of(a.representations, best_audio)
                ELSE best_audio)

select_best_representation(adaptation_sets, options) ==
    select_best_from(adaptation_sets,
                     unwrap_or(options.video_height, DefaultVideoHeight),
                     <<>>, <<>>)

\* dash.rs 729-733, 746-751, 769-773
with_base(base_url, url) ==
    IF starts_with_http(url) THEN url ELSE base_url \o url

\* dash.rs 765-773: the URL of the media segment of one number
media_url(base_url, media, id, number) ==
    with_base(base_url,
              replace(replace(media, "$RepresentationID$", id),
                      "$Number$", to_string(number)))

\* A numbering that does not advance: every URL carries the start number.
numbered_urls_stuck(base_url, media, id, first, count) ==
    [k \in 1..count |-> media_url(base_url, media, id, first)]

\* `count` media URLs numbered from `first`
numbered_urls(base_url, media, id, first, count) ==
    [k \in 1..count |-> media_url(base_url, media, id, first + k - 1)]

\* dash.rs 761-778: the loop over the S elements of the timeline
RECURSIVE timeline_urls(_, _, _, _, _)
timeline_urls(base_url, media, id, segments, current_number) ==
    IF segments = <<>> THEN <<>>
    ELSE LET repeat == unwrap_or(Head(segments).repeat, 0) + 1
             count == IF repeat > 0 THEN repeat ELSE 0
         IN numbered_urls(base_url, media, id, current_number, count)
               \o timeline_urls(base_url, media, id, Tail(segments),
                                current_number + count)

generate_segment_urls(base_url, representation, adaptation_set) ==
    IF representation.segment_list # <<>>
    THEN LET l == representation.segment_list[1].segment_urls
         IN [k \in 1..Len(l) |-> with_base(base_url, l[k].media)]
    ELSE
      LET segment_template ==
              IF representation.segment_template # <<>>
              THEN representation.segment_template
              ELSE adaptation_set.segment_template
      IN IF segment_template = <<>> THEN <<>>
         ELSE
           LET template == segment_template[1]
               init_urls ==
                   IF template.initialization = <<>> THEN <<>>
                   ELSE LET init == template.initialization[1]
                        IN IF starts_with_http(init) THEN <<init>>
                           ELSE <<base_url
                                    \o replace(init, "$RepresentationID$",
                                               representation.id)>>
               first == unwrap_or(template.start_number, 1)
               media_urls ==
                   IF template.media = <<>> THEN <<>>
                   ELSE IF template.segment_timeline # <<>>
                   THEN timeline_urls(base_url, template.media[1],
                                      representation.id,
                                      template.segment_timeline[1].segments,
                                      first)
                   ELSE IF template.duration # <<>>
                           /\ template.timescale # <<>>
                   THEN numbered_urls(base_url, template.media[1],
                                      representation.id, first,
                                      AssumedSegments)
                   ELSE <<>>
           IN init_urls \o media_urls

\* dash.rs 498-502: the adaptation set that holds the chosen representation
adaptation_set_of(adaptation_sets, rep) ==
    LET found == { k \in 1..Len(adaptation_sets) :
                     \E j \in 1..Len(adaptation_sets[k].representations) :
                        adaptation_sets[k].representations[j].id = rep.id }
    IN IF found = {} THEN <<>>
       ELSE <<adaptation_sets[CHOOSE k \in found :
                                 \A m \in found : k <= m]>>

\* merge_segments, dash.rs 373-375: an empty list of paths is an error.
merge_segments(segment_paths) ==
    IF segment_paths = <<>> THEN "No segments to merge" ELSE "ok"

\* download_dash from the selection to the merges (dash.rs 487-540), on the
\* path where every segment request succeeds: download_segments_parallel
\* returns one path for each URL it was given.
plan_stream(base_url, adaptation_sets, chosen) ==
    IF chosen = <<>> \/ adaptation_set_of(adaptation_sets, chosen[1]) = <<>>
    THEN [urls |-> <<>>, merge |-> "skipped"]
    ELSE LET urls ==
                 generate_segment_urls(
                     base_url, chosen[1],
                     adaptation_set_of(adaptation_sets, chosen[1])[1])
         IN [urls |-> urls, merge |-> merge_segments(urls)]

plan_download(base_url, adaptation_sets, options) ==
    LET best == select_best_representation(adaptation_sets, options)
        video == plan_stream(base_url, adaptation_sets, best.video)
        audio == IF video.merge = "No segments to merge"
                 THEN [urls |-> <<>>, merge |-> "skipped"]
                 ELSE plan_stream(base_url, adaptation_sets, best.audio)
    IN [video_rep |-> best.video, audio_rep |-> best.audio,
        video |-> video, audio |-> audio,
        result |-> IF "No segments to merge" \in {video.merge, audio.merge}
                   THEN "No segments to merge" ELSE "ok"]

\* ---- HlsDownloader::parse_manifest (core/streaming/hls.rs 106-146) ---------
MaxEntries == 2     \* longest media playlist tried
MaxSequence == 2    \* largest EXT-X-MEDIA-SEQUENCE tried
MaxBytes == 2       \* largest byte-range offset and length tried
MaxPeriodDuration == 9    \* longest period tried, in seconds

PlaylistUrl == <<"http", "://host/", "index.m3u8">>

SegmentUris == { <<"seg.ts">>, <<"http", "://cdn/seg.ts">> }

\* EXT-X-BYTERANGE of a playlist entry, as the parser hands it over
ByteRanges ==
    { <<>> } \cup
    { <<[start |-> s, length |-> n]>> : s, n \in 0..MaxBytes }

MediaSegments == [uri : SegmentUris, byte_range : ByteRanges]

MediaPlaylists ==
    [media_sequence : 0..MaxSequence,
     segments : UNION { [1..n -> MediaSegments] : n \in 1..MaxEntries }]

\* Url::join with a relative reference that is one path segment: the last
\* segment of the base is replaced.
url_join(base_url, uri) == SubSeq(base_url, 1, Len(base_url) - 1) \o uri

\* hls.rs 122-124: the pair stored in StreamSegment::byte_range
byte_range_of(range) ==
    IF range = <<>> THEN <<>>
    ELSE << <<range[1].start, range[1].start + range[1].length>> >>

\* hls.rs 106-146, the MediaPlaylist arm; entry i of enumerate() is i - 1.
parse_manifest(url, media) ==
    [url |-> url,
     segments |->
        [i \in 1..Len(media.segments) |->
            [url |-> IF starts_with_http(media.segments[i].uri)
                     THEN media.segments[i].uri
                     ELSE url_join(url, media.segments[i].uri),
             sequence |-> i - 1,
             byte_range |-> byte_range_of(media.segments[i].byte_range)]],
     sequence_no |-> media.media_sequence]

\* hls.rs 482-487: the request download_segment builds; range is the value
\* of its Range header, <<>> when it has none.
segment_request(url, byte_range) ==
    [url |-> url,
     range |-> IF byte_range = <<>> THEN <<>>
               ELSE <<"bytes=">> \o to_string(byte_range[1][1])
                       \o <<"-">> \o to_string(byte_range[1][2])]

\* hls.rs 270-291: download_segments hands url and byte_range of each
\* segment to download_segment.
segment_requests(segments) ==
    [i \in 1..Len(segments) |->
        segment_request(segments[i].url, segments[i].byte_range)]

\* ---- width of the segment worker pool ---------------------------------------
MaxConfigured == 33    \* largest configured width tried

MaxConnections == 32   \* options.connections.min(32)

\* tools/hls.rs 227: options.connections.min(32).max(1) as usize
connections(configured) ==
    LET lowered == IF configured < MaxConnections THEN configured
                   ELSE MaxConnections
    IN IF lowered > 1 THEN lowered ELSE 1

\* streaming/hls.rs 257: let concurrent_limit = options.max_concurrent_downloads
concurrent_limit(configured) == configured

\* tools/dash.rs 510, 532: options.max_concurrent_downloads.unwrap_or(4)
max_concurrent_of(configured) == unwrap_or(configured, DefaultMaxConcurrent)

\* the argument each fetcher gives to buffer_unordered
pool_width(name, configured) ==
    CASE name = "hlstool" -> connections(configured)
      [] name = "hls" -> concurrent_limit(configured)
      [] name = "dash" -> max_concurrent_of(configured)

WidthInputs ==
    { [fn |-> "pool_width", fetcher |-> f, configured |-> n] :
      f \in {"hls", "hlstool"}, n \in 0..MaxConfigured }
    \cup
    { [fn |-> "pool_width", fetcher |-> "dash", configured |-> o] :
      o \in { <<>> } \cup { <<n>> : n \in 0..MaxConfigured } }

\* ---- manifests: one call on one input ----------------------------------------
VideoHeightOptions == { <<>>, <<480>> }

PlanInputs ==
    { [fn |-> "download_dash", base_url |-> BaseUrl,
       adaptation_sets |->
          <<AdaptationSet("video", v, t), AdaptationSet("audio", a, <<>>)>>,
       options |-> [video_height |-> h]] :
      v \in VideoRepresentationLists, t \in { <<>>, <<TimelineTemplate>> },
      a \in AudioRepresentationLists, h \in VideoHeightOptions }

TemplateInputs ==
    { [fn |-> "generate_segment_urls", base_url |-> BaseUrl,
       representation |->
          Representation(VideoId(1), <<720>>, <<>>,
                         [segment_template |-> r, segment_list |-> l]),
       adaptation_set |-> AdaptationSet("video", <<>>, a)] :
      r \in { <<>> } \cup { <<t>> : t \in SegmentTemplates },
      a \in { <<>>, <<TimelineTemplate>> }, l \in SegmentLists }
    \cup
    { [fn |-> "generate_segment_urls", base_url |-> BaseUrl,
       representation |->
          Representation(VideoId(1), <<720>>, <<>>,
                         [segment_template |-> <<>>, segment_list |-> <<>>]),
       adaptation_set |-> AdaptationSet("video", <<>>, <<t>>)] :
      t \in SegmentTemplates }

\* generate_segment_urls on a template with duration and timescale and no
\* SegmentTimeline, inside a manifest that states a period of
\* period_duration seconds.  struct MPD and struct Period (dash.rs 114-129)
\* have no field for it, so the function never receives it.
DurationInputs ==
    { [fn |-> "generate_segment_urls", base_url |-> BaseUrl,
       representation |->
          Representation(VideoId(1), <<720>>, <<>>,
                         [segment_template |-> <<t>>, segment_list |-> <<>>]),
       adaptation_set |-> AdaptationSet("video", <<>>, <<>>),
       period_duration |-> d] :
      t \in { x \in SegmentTemplates :
                /\ x.media # <<>>
                /\ x.segment_timeline = <<>>
                /\ x.duration # <<>>
                /\ x.timescale # <<>> },
      d \in 1..MaxPeriodDuration }

PlaylistInputs ==
    { [fn |-> "parse_manifest", url |-> PlaylistUrl, media |-> m] :
      m \in MediaPlaylists }

InitManifest ==
    /\ input \in PlanInputs \cup TemplateInputs \cup DurationInputs
                   \cup PlaylistInputs \cup WidthInputs
    /\ output = <<>>
    /\ FetchIdle
    /\ StoreIdle
    /\ RunIdle
    /\ MgrIdle
    /\ DirectIdle

\* download_dash, dash.rs 487-540
PlanDownload ==
    /\ input # <<>>
    /\ input.fn = "download_dash"
    /\ output = <<>>
    /\ output' = plan_download(input.base_url, input.adaptation_sets,
                               input.options)
    /\ UNCHANGED input
    /\ UNCHANGED <<fetchVars, storeVars, runVars, mgrVars, directVars>>

\* self.generate_segment_urls(&base_url, video_rep, adaptation_set)
GenerateSegmentUrls ==
    /\ input # <<>>
    /\ input.fn = "generate_segment_urls"
    /\ output = <<>>
    /\ output' = [urls |-> generate_segment_urls(input.base_url,
                                                 input.representation,
                                                 input.adaptation_set)]
    /\ UNCHANGED input
    /\ UNCHANGED <<fetchVars, storeVars, runVars, mgrVars, directVars>>

\* self.parse_manifest(url) on a media playlist
ParseManifest ==
    /\ input # <<>>
    /\ input.fn = "parse_manifest"
    /\ output = <<>>
    /\ output' = [manifest |-> parse_manifest(input.url, input.media),
                  requests |-> <<>>]
    /\ UNCHANGED input
    /\ UNCHANGED <<fetchVars, storeVars, runVars, mgrVars, directVars>>

\* download_segments builds the request of every segment of the manifest
SendSegmentRequests ==
    /\ input # <<>>
    /\ input.fn = "parse_manifest"
    /\ output # <<>>
    /\ output.requests = <<>>
    /\ output' = [output EXCEPT
                     !.requests = segment_requests(output.manifest.segments)]
    /\ UNCHANGED input
    /\ UNCHANGED <<fetchVars, storeVars, runVars, mgrVars, directVars>>

\* .buffer_unordered(width) in each fetcher
PoolWidth ==
    /\ input # <<>>
    /\ input.fn = "pool_width"
    /\ output = <<>>
    /\ output' = [width |-> pool_width(input.fetcher, input.configured)]
    /\ UNCHANGED input
    /\ UNCHANGED <<fetchVars, storeVars, runVars, mgrVars, directVars>>

NextManifest ==
    \/ PlanDownload
    \/ GenerateSegmentUrls
    \/ ParseManifest
    \/ SendSegmentRequests
    \/ PoolWidth

SpecManifest == InitManifest /\ [][NextManifest]_vars

\* ---- HlsDownloadTool::download_direct (core/tools/hls.rs 189-349) ----------
MaxReports == 3     \* calls of the progress callback followed in one run

TaskId == "task"    \* uuid::Uuid::new_v4().to_string()

InitDirect ==
    /\ fetcher = "hlstool"
    /\ max_concurrent \in 1..MaxConc
    /\ retry_count = 0
    /\ stateMode = "none"
    /\ state_clone = <<>>
    /\ state = <<>>
    /\ state_file = NoStateFile
    /\ files = [i \in Idx |-> "absent"]
    /\ StoreIdle
    /\ RunIdle
    /\ MgrIdle
    /\ PureIdle
    /\ pc = "idle"
    /\ task = [i \in Idx |-> "none"]
    /\ handle = [i \in Idx |-> "none"]
    /\ requests = [i \in Idx |-> 0]
    /\ deletions = [i \in Idx |-> 0]
    /\ attempts = [i \in Idx |-> 0]
    /\ queue = <<>>
    /\ buffer = {}
    /\ results = <<>>
    /\ ret = [kind |-> "none", paths |-> <<>>]
    /\ merged = <<>>
    /\ active_downloads = {}
    /\ direct_pc = "called"
    /\ direct_error = "none"
    /\ registry = {}
    /\ downloaded = 0
    /\ ticker = "none"
    /\ reports = <<>>

\* download_direct returns Err from the step `step`.
DirectFail(step) ==
    /\ direct_pc' = "returned"
    /\ direct_error' = step
    /\ ret' = [kind |-> "err", paths |-> <<>>]

\* lines 198-208: ensure_dir_exists(output_path), then the task id is
\* inserted into active_downloads.
DirectRegister(dir_ok) ==
    /\ direct_pc = "called"
    /\ IF dir_ok
       THEN /\ registry' = registry \cup {TaskId}
            /\ direct_pc' = "registered"
            /\ UNCHANGED <<direct_error, ret>>
       ELSE /\ DirectFail("output_dir")
            /\ UNCHANGED registry
    /\ UNCHANGED <<downloaded, ticker, reports>>
    /\ UNCHANGED <<fetcher, max_concurrent, retry_count, stateMode,
                   state_clone, state, state_file, files, pc, task, handle,
                   requests, deletions, attempts, queue, buffer, results,
                   merged, active_downloads>>
    /\ UNCHANGED <<storeVars, runVars, mgrVars, pureVars>>

\* lines 211-223: self.parse_manifest(url).await?, the empty check and the
\* temporary directory.
DirectParse(outcome) ==
    /\ direct_pc = "registered"
    /\ IF outcome = "segments"
       THEN /\ direct_pc' = "parsed"
            /\ UNCHANGED <<direct_error, ret>>
       ELSE DirectFail(outcome)
    /\ UNCHANGED <<registry, downloaded, ticker, reports>>
    /\ UNCHANGED <<fetcher, max_concurrent, retry_count, stateMode,
                   state_clone, state, state_file, files, pc, task, handle,
                   requests, deletions, attempts, queue, buffer, results,
                   merged, active_downloads>>
    /\ UNCHANGED <<storeVars, runVars, mgrVars, pureVars>>

\* lines 234-283: with a callback the progress task is spawned; the stream of
\* segment futures is built.
DirectSpawn(callback) ==
    /\ direct_pc = "parsed"
    /\ ticker' = IF callback THEN "running" ELSE "absent"
    /\ direct_pc' = "fetching"
    /\ pc' = "init"
    /\ UNCHANGED <<direct_error, registry, downloaded, reports>>
    /\ UNCHANGED <<fetcher, max_concurrent, retry_count, stateMode,
                   state_clone, state, state_file, files, task, handle,
                   requests, deletions, attempts, queue, buffer, results,
                   ret, merged, active_downloads>>
    /\ UNCHANGED <<storeVars, runVars, mgrVars, pureVars>>

\* lines 241-279: one turn of the progress task's loop.  interval.tick()
\* completes every 500 ms, the first time at once.
DirectTick ==
    /\ ticker = "running"
    /\ IF TaskId \notin registry
       THEN /\ ticker' = "finished"
            /\ UNCHANGED reports
       ELSE /\ Len(reports) < MaxReports
            /\ reports' = Append(reports, downloaded)
            /\ ticker' = IF downloaded >= NumSegs THEN "finished"
                          ELSE "running"
    /\ UNCHANGED <<direct_pc, direct_error, registry, downloaded>>
    /\ UNCHANGED fetchVars
    /\ UNCHANGED <<storeVars, runVars, mgrVars, pureVars>>

\* lines 305-311: collect() has returned; the task id is removed.
DirectUnregister ==
    /\ direct_pc = "fetching"
    /\ pc = "fetching"
    /\ buffer = {}
    /\ queue = <<>>
    /\ registry' = registry \ {TaskId}
    /\ direct_pc' = "unregistered"
    /\ UNCHANGED <<direct_error, downloaded, ticker, reports>>
    /\ UNCHANGED fetchVars
    /\ UNCHANGED <<storeVars, runVars, mgrVars, pureVars>>

\* lines 314-316: handle.await on the progress task
DirectJoin ==
    /\ direct_pc = "unregistered"
    /\ ticker \in {"absent", "finished"}
    /\ direct_pc' = "joined"
    /\ UNCHANGED <<direct_error, registry, downloaded, ticker, reports>>
    /\ UNCHANGED fetchVars
    /\ UNCHANGED <<storeVars, runVars, mgrVars, pureVars>>

\* lines 336-344: every segment succeeded and ffmpeg fails.
DirectMergeFail ==
    /\ direct_pc = "joined"
    /\ ~ AnyResultFailed
    /\ DirectFail("merge")
    /\ pc' = "returned"
    /\ UNCHANGED <<registry, downloaded, ticker, reports>>
    /\ UNCHANGED <<fetcher, max_concurrent, retry_count, stateMode,
                   state_clone, state, state_file, files, task, handle,
                   requests, deletions, attempts, queue, buffer, results,
                   merged, active_downloads>>
    /\ UNCHANGED <<storeVars, runVars, mgrVars, pureVars>>

NextDirect ==
    \/ \E dir_ok \in BOOLEAN : DirectRegister(dir_ok)
    \/ \E outcome \in {"manifest", "empty", "temp_dir", "segments"} :
          DirectParse(outcome)
    \/ \E callback \in BOOLEAN : DirectSpawn(callback)
    \/ DirectTick
    \/ HlsStart
    \/ \E i \in Idx : ToolSend(i)
    \/ \E i \in Idx : \E success \in BOOLEAN : ToolAnswer(i, success)
    \/ \E i \in Idx : HlsCollect(i)
    \/ DirectUnregister
    \/ DirectJoin
    \/ ToolReturn
    \/ DirectMergeFail

SpecDirect == InitDirect /\ [][NextDirect]_vars

\* ---- playlists that lead to playlists (tools/hls.rs 73-146, hls.rs 153-181) --
MaxChain == 11      \* longest chain of master playlists tried

MaxFetches == 10    \* for _ in 0..10

PlaylistAt(n) == <<"playlist", n>>

SegmentAt(n) == <<"segment", n>>

PlaylistNodes == 1..(MaxChain + 1)

\* What the server answers for a playlist URL: a master playlist with its
\* variant URIs, a media playlist with its entries, or a failure.
MasterPlaylist(uris) == [kind |-> "master", uris |-> uris]

MediaPlaylist(uris) == [kind |-> "media", uris |-> uris]

FetchError == [kind |-> "error", uris |-> <<>>]

\* The playlist a chain of masters ends in: a media playlist, one without
\* entries, a failure, a master without variants, or a master that points
\* back into the chain.
Tails(k) ==
    { MediaPlaylist(<<SegmentAt(1), SegmentAt(2)>>), MediaPlaylist(<<>>),
      FetchError, MasterPlaylist(<<>>) }
    \cup { MasterPlaylist(<<PlaylistAt(j)>>) : j \in 1..(k + 1) }

\* Masters 1..k, each naming the next playlist as its first variant, then the
\* tail at k + 1.
ChainGraph(k, tail) ==
    [n \in PlaylistNodes |->
        IF n <= k THEN MasterPlaylist(<<PlaylistAt(n + 1),
                                        PlaylistAt(n)>>)
        ELSE IF n = k + 1 THEN tail
        ELSE FetchError]

PlaylistGraphs ==
    UNION { { ChainGraph(k, t) : t \in Tails(k) } : k \in 0..MaxChain }

\* GET of a playlist URL
fetch_playlist(graph, url) == graph[url[2]]

InitPlaylists ==
    /\ \E f \in {"parse_m3u8_directly", "download_stream"},
          g \in PlaylistGraphs :
          input = [fn |-> f, graph |-> g, url |-> PlaylistAt(1)]
    /\ output = <<>>
    /\ FetchIdle
    /\ StoreIdle
    /\ RunIdle
    /\ MgrIdle
    /\ DirectIdle

\* tools/hls.rs 75-77: the locals of parse_m3u8_directly
M3u8Begin ==
    /\ input # <<>>
    /\ input.fn = "parse_m3u8_directly"
    /\ output = <<>>
    /\ output' = [pc |-> "loop", iteration |-> 0, current_url |-> input.url,
                  visited_urls |-> {}, segments |-> <<>>, fetches |-> 0,
                  error |-> "none"]
    /\ UNCHANGED input
    /\ UNCHANGED <<fetchVars, storeVars, runVars, mgrVars, directVars>>

\* tools/hls.rs 80-143: one turn of `for _ in 0..10`, and line 145 when it
\* was the last.
M3u8Turn ==
    /\ input # <<>>
    /\ input.fn = "parse_m3u8_directly"
    /\ output # <<>>
    /\ output.pc = "loop"
    /\ LET playlist == fetch_playlist(input.graph, output.current_url)
           is_variant_playlist == playlist.kind = "master"
       IN IF output.current_url \in output.visited_urls
          THEN output' = [output EXCEPT !.pc = "err", !.error = "cycle"]
          ELSE IF playlist.kind = "error"
          THEN output' = [output EXCEPT
                             !.pc = "err", !.error = "fetch",
                             !.fetches = @ + 1,
                             !.visited_urls = @ \cup {output.current_url}]
          ELSE IF is_variant_playlist /\ playlist.uris # <<>>
          THEN output' = [output EXCEPT
                             !.pc = IF output.iteration + 1 = MaxFetches
                                    THEN "ok" ELSE "loop",
                             !.iteration = @ + 1,
                             !.fetches = @ + 1,
                             !.visited_urls = @ \cup {output.current_url},
                             !.segments = playlist.uris,
                             !.current_url = playlist.uris[1]]
          ELSE output' = [output EXCEPT
                             !.pc = "ok",
                             !.fetches = @ + 1,
                             !.visited_urls = @ \cup {output.current_url},
                             !.segments = playlist.uris]
    /\ UNCHANGED input
    /\ UNCHANGED <<fetchVars, storeVars, runVars, mgrVars, directVars>>

\* hls.rs 154-158: download_stream is called on the manifest URL.
StreamBegin ==
    /\ input # <<>>
    /\ input.fn = "download_stream"
    /\ output = <<>>
    /\ output' = [pc |-> "resolving", manifest_url |-> input.url,
                  depth |-> 1, requests |-> 0, error |-> "none"]
    /\ UNCHANGED input
    /\ UNCHANGED <<fetchVars, storeVars, runVars, mgrVars, directVars>>

\* hls.rs 160-180: parse_manifest, then for a master playlist the call of
\* download_stream on the selected variant, for a media playlist
\* download_segments.  depth counts the nested calls, up to MaxChain + 2;
\* requests is the parity of the number of manifest requests sent (hls.rs 57),
\* so that a call that keeps requesting keeps taking steps.
StreamResolve ==
    /\ input # <<>>
    /\ input.fn = "download_stream"
    /\ output # <<>>
    /\ output.pc = "resolving"
    /\ LET manifest == fetch_playlist(input.graph, output.manifest_url)
           sent == (output.requests + 1) % 2
       IN IF manifest.kind = "error"
          THEN output' = [output EXCEPT !.pc = "err", !.error = "fetch",
                                        !.requests = sent]
          ELSE IF manifest.kind = "media"
          THEN output' = [output EXCEPT !.pc = "media", !.requests = sent]
          ELSE IF manifest.uris = <<>>
          THEN output' = [output EXCEPT !.pc = "err", !.error = "no_variant",
                                        !.requests = sent]
          ELSE output' = [output EXCEPT
                             !.manifest_url = manifest.uris[1],
                             !.depth = IF @ < MaxChain + 2 THEN @ + 1 ELSE @,
                             !.requests = sent]
    /\ UNCHANGED input
    /\ UNCHANGED <<fetchVars, storeVars, runVars, mgrVars, directVars>>

NextPlaylists ==
    \/ M3u8Begin
    \/ M3u8Turn
    \/ StreamBegin
    \/ StreamResolve

SpecPlaylists == InitPlaylists /\ [][NextPlaylists]_vars

\* Each call is an async fn that is polled until it returns.
SpecPlaylistsLive == SpecPlaylists /\ WF_vars(NextPlaylists)

\* ---- properties ---------------------------------------------------------------
InFlight == { i \in Idx : task[i] = "inflight" }

IsAscending(s) == \A j, k \in DOMAIN s : j < k => s[j] < s[k]

Fetched == { i \in Idx : task[i] = "ok" }

\* C1: at every moment at most max_concurrent segment requests are in flight,
\* in the DASH fetcher as well as in the HLS fetchers.
C1_InFlightWithinLimit == Cardinality(InFlight) <= max_concurrent

\* C2: whatever the order in which the fetches complete, the path list a
\* successful fetch hands to the merge step is in ascending index order.
C2_MergedInIndexOrder ==
    (pc = "returned" /\ ret.kind = "ok") => IsAscending(merged)

C4_NoSegmentDropped ==
    (fetcher = "dash" /\ pc = "returned" /\ ret.kind = "ok") =>
        /\ SeqElems(ret.paths) = Idx
        /\ Len(ret.paths) = NumSegs

C7_SkippedOnlyIfFileExists ==
    \A i \in Idx : task[i] = "skipped" => files[i] # "absent"

\* C8: the fetch returns success exactly when every pending segment was
\* fetched successfully; an error returns no paths and merges nothing.
C8_SuccessIffAllFetched ==
    pc = "returned" =>
        /\ ret.kind = "ok" <=> \A i \in Idx : task[i] \in {"ok", "skipped"}
        /\ ret.kind = "err" => (ret.paths = <<>> /\ merged = <<>>)

\* C8 witness: a fetch in which one segment succeeded and another failed has
\* returned.
C8_Witness ==
    /\ pc = "returned"
    /\ \E i, j \in Idx : task[i] = "ok" /\ task[j] = "err"

\* C9: 416 handling deletes the local file at most once and causes at most
\* two requests for a segment.
C9_AtMostOneRangeRetry ==
    fetcher = "dash" =>
        \A i \in Idx : deletions[i] <= 1 /\ requests[i] <= 2

\* C10: a segment whose attempts all fail is reported failed after exactly
\* 1 + retry_count requests, and never sees more than that.
C10_InitialAttemptPlusRetries ==
    fetcher = "hls" =>
        \A i \in Idx :
            /\ requests[i] <= 1 + retry_count
            /\ task[i] = "err" => requests[i] = 1 + retry_count

\* How often index i stands in the sequence q.
Occurrences(q, i) == Cardinality({ k \in DOMAIN q : q[k] = i })

\* How often index i has been handed to the pool: still waiting in the stream,
\* held by it, or already yielded.
ScheduledCount(i) ==
    Occurrences(queue, i) + (IF i \in buffer THEN 1 ELSE 0)
       + Cardinality({ k \in DOMAIN results : results[k].index = i })

\* C11: no index is handed to the worker pool more than once during a call,
\* and after an attempt for a segment has succeeded no further request is
\* sent for that segment.
C11_ScheduledOnceNoRequestAfterSuccess ==
    /\ [](\A i \in Idx : ScheduledCount(i) <= 1)
    /\ [][\A i \in Idx : task[i] \in {"ok", "dl_ok"}
              => requests'[i] = requests[i]]_vars

\* A call has ended after a segment succeeded on a repeated request.
C11_Witness ==
    /\ ret.kind # "none"
    /\ \E i \in Idx : task[i] = "ok" /\ requests[i] >= 2

\* C12: a load of the file written by save returns a state equal to the saved
\* one in source_url, output_path, completed_segments (same order),
\* total_segments, segment_mapping and options.
C12_LoadAfterSaveReturnsSavedState ==
    (store_file.exists /\ store_loaded.kind # "none")
       => /\ store_loaded.kind = "ok"
          /\ store_loaded.value = store_saved

\* A state with an escaped source_url and a two-digit index first has been
\* saved and loaded.
C12_Witness ==
    /\ store_loaded.kind = "ok"
    /\ store_loaded.value.source_url = <<"\"", "\\">>
    /\ Len(store_loaded.value.completed_segments) >= 2
    /\ store_loaded.value.completed_segments[1] = MaxIndex

NoDuplicates(q) == \A j, k \in DOMAIN q : j # k => q[j] # q[k]

\* C13: marking an index twice leaves the state as after the first mark, and
\* no sequence of marks on a state from DownloadState::new puts an index into
\* completed_segments twice.
C13_MarkIdempotentNoDuplicates ==
    LET cs == store_state.completed_segments IN
    /\ NoDuplicates(cs)
    /\ \A i \in MarkIdx :
          mark_segment_completed(mark_segment_completed(cs, i), i)
             = mark_segment_completed(cs, i)
    /\ (/\ store_last.op = "mark"
        /\ is_segment_completed(store_last.before, store_last.index))
          => cs = store_last.before

\* An index that was already completed has been marked again.
C13_Witness ==
    /\ store_last.op = "mark"
    /\ is_segment_completed(store_last.before, store_last.index)
    /\ Len(store_state.completed_segments) >= 2

\* C18: two different output paths never get the same state file path.
C18_StatePathInjective ==
    ("key_a" \in DOMAIN store_paths /\ store_paths.a # store_paths.b)
       => store_paths.key_a # store_paths.key_b

\* The state file found by the call was written for another URL or another
\* output path.
StaleBefore ==
    /\ run_file0.kind = "ok"
    /\ (run_file0.source_url # RunUrl \/ run_file0.output_path # RunOut)

\* C14: when the state file found belongs to another source_url or
\* output_path, no segment is skipped because of it and every state the call
\* saves carries this call's URL and path and only indices completed by it.
C14_StaleStateDiscarded ==
    (StaleBefore /\ run_pc # "begin") =>
       /\ \A i \in Idx : task[i] = "skipped" => i \in run_marked
       /\ (run_saved /\ state_file.exists) =>
             /\ run_file.source_url = RunUrl
             /\ run_file.output_path = RunOut
             /\ SeqElems(state_file.completed) \subseteq run_marked

\* A call that found a stale file has saved its own state twice.
C14_Witness ==
    /\ StaleBefore
    /\ run_saved
    /\ state_file.exists
    /\ Cardinality(run_marked) >= 2

\* C15: a state file that cannot be read or parsed does not end the call; the
\* download goes on with a new state.
C15_UnreadableStateNotFatal ==
    run_file0.kind = "corrupt" => run_error # "state_load"

\* C16: every index of completed_segments lies in [0, total_segments).
C16_CompletedWithinTotal ==
    run_state # NoStateFields =>
       \A k \in DOMAIN state :
          0 <= state[k] /\ state[k] < run_state.total_segments

\* C17: the state file is removed only by a call that has written the final
\* output and returns Ok; a call that returns an error leaves the state file
\* it found or wrote in place.
C17_StateFileRemovedOnlyOnSuccess ==
    /\ [][(state_file.exists /\ ~ state_file'.exists)
             => (output_file' /\ run_pc' = "done_ok")]_vars
    /\ []((run_pc = "done_err" /\ (run_file0.kind # "absent" \/ run_saved))
             => state_file.exists)

\* A call that had saved its state has returned an error after the fetch.
C17_Witness ==
    /\ run_pc = "done_err"
    /\ run_saved
    /\ run_error \in {"segments", "merge", "mux"}
    /\ state_file.exists

\* C19: once cancel_download has returned Ok for a running download (the
\* status is Cancelled), no further segment request is sent.
C19_NoFetchAfterCancel ==
    [][download_status = "Cancelled" => requests' = requests]_vars

\* C20: a status of Completed, Error or Cancelled never changes again.
C20_TerminalStatusNeverChanges ==
    [][(download_status \in {"Completed", "Error", "Cancelled"})
          => (download_status' = download_status)]_vars

\* C21: when the worker of a download that was not cancelled has ended with
\* an error, the status is Error and error_message is set.
C21_WorkerErrorSetsErrorStatus ==
    (mgr_pc = "finished_err" /\ ~ mgr_cancelled)
       => (download_status = "Error" /\ error_message)

\* The candidates of the video selection of the call, and its winner.
VideoCandidates ==
    IF input.fn = "select_best_variant" THEN input.variants
    ELSE input.manifest.video_adaptations[1]

VideoWinner ==
    IF input.fn = "select_best_variant" THEN output.value
    ELSE output.video[1]

\* A video selection has been made.
VideoSelected ==
    /\ output # <<>>
    /\ input.fn \in {"select_best_variant", "select_best_quality"}
    /\ input.fn = "select_best_quality" => output.video # <<>>

NoConstraints(o) ==
    /\ o.max_resolution = <<>>
    /\ o.min_resolution = <<>>
    /\ o.max_bitrate = <<>>
    /\ o.min_bitrate = <<>>

\* C22: with no constraint set the winner has the largest pixel area of the
\* list, and among the candidates of that area the highest bandwidth.
C22_LargestAreaThenBandwidth ==
    (VideoSelected /\ NoConstraints(input.options)) =>
       \A k \in DOMAIN VideoCandidates :
          LET v == VideoCandidates[k] IN
          /\ PixelArea(v) <= PixelArea(VideoWinner)
          /\ PixelArea(v) = PixelArea(VideoWinner)
                => v.bandwidth <= VideoWinner.bandwidth

\* A candidate meets every constraint that is set, as the filters test them.
Satisfies(v, o) ==
    /\ o.max_resolution # <<>> => WithinMaxResolution(v, o.max_resolution)
    /\ o.min_resolution # <<>> => WithinMinResolution(v, o.min_resolution)
    /\ o.max_bitrate # <<>> => v.bandwidth <= o.max_bitrate[1] * 1000
    /\ o.min_bitrate # <<>> => v.bandwidth >= o.min_bitrate[1] * 1000

Unconstrained ==
    [max_resolution |-> <<>>, min_resolution |-> <<>>,
     max_bitrate |-> <<>>, min_bitrate |-> <<>>]

C24_ResolutionFiltersArePixelAreaBounds ==
    VideoSelected =>
       \A k \in DOMAIN VideoCandidates :
          LET v == VideoCandidates[k]
              o == input.options
          IN  v.resolution # <<>> =>
                 /\ o.max_resolution # <<>> =>
                       (WithinMaxResolution(v, o.max_resolution)
                          <=> PixelArea(v) <= PixelArea([resolution |->
                                                    o.max_resolution]))
                 /\ o.min_resolution # <<>> =>
                       (WithinMinResolution(v, o.min_resolution)
                          <=> PixelArea(v) >= PixelArea([resolution |->
                                                    o.min_resolution]))

\* Whether the selection of a kind must come out empty: the flag of the other
\* kind is set, or there is no adaptation set, or the first one has no
\* representation.
NothingToSelect(flag, adaptations) ==
    flag \/ adaptations = <<>> \/ adaptations[1] = <<>>

\* C25: audio_only leaves the video selection empty, video_only the audio
\* selection, and select_best_quality fails exactly when both are empty.
C25_FlagsSuppressAndErrorIffBothEmpty ==
    (output # <<>> /\ input.fn = "select_best_quality") =>
       LET m == input.manifest
           o == input.options
           no_video == NothingToSelect(o.audio_only, m.video_adaptations)
           no_audio == NothingToSelect(o.video_only, m.audio_adaptations)
       IN  /\ o.audio_only => output.video = <<>>
           /\ o.video_only => output.audio = <<>>
           /\ output.kind = "err" <=> (no_video /\ no_audio)
           /\ output.kind = "ok" =>
                 /\ output.video = <<>> <=> no_video
                 /\ output.audio = <<>> <=> no_audio

\* Both flags were set on a manifest that has video and audio.
C25_Witness ==
    /\ output # <<>>
    /\ input.fn = "select_best_quality"
    /\ input.options.audio_only
    /\ input.options.video_only
    /\ input.manifest.video_adaptations # <<>>
    /\ input.manifest.video_adaptations[1] # <<>>
    /\ input.manifest.audio_adaptations # <<>>
    /\ input.manifest.audio_adaptations[1] # <<>>
    /\ output.kind = "err"

\* C26: when download_dash returns an error from a segment fetch or from a
\* merge, the segment files it had downloaded are still in their directory.
C26_SegmentsKeptOnFailure ==
    (run_pc = "done_err" /\ run_error \in {"segments", "merge"})
       => \A i \in Idx : task[i] = "ok" => files[i] # "absent"

\* The template generate_segment_urls works from, dash.rs 740-741.
EffectiveTemplate(rep, adaptation_set) ==
    IF rep.segment_template # <<>> THEN rep.segment_template
    ELSE adaptation_set.segment_template

\* The representation has what segment URLs are made from: a SegmentList, or
\* a SegmentTemplate (its own or its adaptation set's) with a media attribute.
HasSegmentSource(rep, adaptation_set) ==
    \/ rep.segment_list # <<>>
    \/ /\ EffectiveTemplate(rep, adaptation_set) # <<>>
       /\ EffectiveTemplate(rep, adaptation_set)[1].media # <<>>

\* C27: when the video adaptation set holds a representation that has a
\* SegmentList or a SegmentTemplate with media, download_dash selects a
\* representation that has one too, and its video merge does not fail with
\* "No segments to merge".
C27_UnusableRepresentationNotSelected ==
    (input # <<>> /\ input.fn = "download_dash" /\ output # <<>>)
       => \A k \in 1..Len(input.adaptation_sets) :
             LET a == input.adaptation_sets[k]
             IN (/\ is_video(a)
                 /\ \E j \in 1..Len(a.representations) :
                       HasSegmentSource(a.representations[j], a))
                   => /\ output.video_rep # <<>>
                      /\ HasSegmentSource(output.video_rep[1], a)
                      /\ output.video.merge # "No segments to merge"

\* C28: the k-th entry (from 0) of a media playlist with media sequence M is
\* given sequence number M + k by parse_manifest.
C28_SequenceStartsAtMediaSequence ==
    (input # <<>> /\ input.fn = "parse_manifest" /\ output # <<>>)
       => \A i \in 1..Len(output.manifest.segments) :
             output.manifest.segments[i].sequence
                = input.media.media_sequence + (i - 1)

\* The bytes a Range header value "bytes=a-b" asks for: a..b, both included.
CoveredBytes(range) ==
    LET dash == CHOOSE p \in 1..Len(range) : range[p] = "-"
    IN parse_integer(SubSeq(range, 2, dash - 1))
          .. parse_integer(SubSeq(range, dash + 1, Len(range)))

\* C29: for a playlist entry with byte range offset s and length n >= 1, the
\* Range header of the segment's request asks for the bytes s .. s+n-1, n
\* bytes in all.
C29_RangeHeaderCoversLengthBytes ==
    (input # <<>> /\ input.fn = "parse_manifest" /\ output # <<>>
       /\ output.requests # <<>>)
       => \A i \in 1..Len(input.media.segments) :
             LET r == input.media.segments[i].byte_range
             IN (r # <<>> /\ r[1].length >= 1)
                   => /\ output.requests[i].range # <<>>
                      /\ CoveredBytes(output.requests[i].range)
                            = r[1].start .. (r[1].start + r[1].length - 1)
                      /\ Cardinality(CoveredBytes(output.requests[i].range))
                            = r[1].length

\* The sum of r + 1 over the S elements of a timeline, an absent r being 0.
RECURSIVE RepeatSum(_)
RepeatSum(segments) ==
    IF segments = <<>> THEN 0
    ELSE unwrap_or(Head(segments).repeat, 0) + 1 + RepeatSum(Tail(segments))

\* generate_segment_urls was called on a representation without SegmentList
\* whose template has media and a SegmentTimeline.
TimelineCase ==
    /\ input # <<>>
    /\ input.fn = "generate_segment_urls"
    /\ output # <<>>
    /\ input.representation.segment_list = <<>>
    /\ EffectiveTemplate(input.representation, input.adaptation_set) # <<>>
    /\ EffectiveTemplate(input.representation,
                         input.adaptation_set)[1].media # <<>>
    /\ EffectiveTemplate(input.representation,
                         input.adaptation_set)[1].segment_timeline # <<>>

\* C30: for a template with a SegmentTimeline whose S elements have repeat
\* counts r_1..r_k (absent = 0), generate_segment_urls returns the
\* initialization URL first when the template has one, then exactly
\* sum(r_i + 1) media URLs whose numbers run from startNumber (1 when absent)
\* upward one by one, no two of them the same.
C30_TimelineUrlsNumberedConsecutively ==
    TimelineCase =>
       LET t == EffectiveTemplate(input.representation,
                                  input.adaptation_set)[1]
           id == input.representation.id
           inits == IF t.initialization = <<>> THEN 0 ELSE 1
           n == RepeatSum(t.segment_timeline[1].segments)
           first == unwrap_or(t.start_number, 1)
           urls == output.urls
       IN /\ Len(urls) = inits + n
          /\ inits = 1 =>
                urls[1] = IF starts_with_http(t.initialization[1])
                          THEN t.initialization[1]
                          ELSE input.base_url
                                  \o replace(t.initialization[1],
                                             "$RepresentationID$", id)
          /\ \A k \in 1..n :
                urls[inits + k]
                   = media_url(input.base_url, t.media[1], id, first + k - 1)
          /\ \A j, k \in 1..n : j # k => urls[inits + j] # urls[inits + k]

\* A timeline of an S without r and an S with the largest r, numbered from
\* the largest startNumber, with an initialization segment.
C30_Witness ==
    /\ TimelineCase
    /\ LET t == EffectiveTemplate(input.representation,
                                  input.adaptation_set)[1]
       IN /\ t.initialization # <<>>
          /\ t.start_number = <<MaxStart>>
          /\ t.segment_timeline[1].segments
                = <<[repeat |-> <<>>], [repeat |-> <<MaxRepeat>>]>>
    /\ Len(output.urls) = MaxRepeat + 3

\* C31: for a template with duration and timescale and no SegmentTimeline,
\* the number of media URLs generate_segment_urls returns is the period
\* duration divided by the segment duration (duration / timescale seconds),
\* rounded up.
C31_SegmentCountFromPeriodDuration ==
    (input # <<>> /\ input.fn = "generate_segment_urls" /\ output # <<>>
       /\ "period_duration" \in DOMAIN input)
       => LET t == input.representation.segment_template[1]
              inits == IF t.initialization = <<>> THEN 0 ELSE 1
              ticks == input.period_duration * t.timescale[1]
          IN Len(output.urls) - inits
                = (ticks + t.duration[1] - 1) \div t.duration[1]

\* The configured width as a number; an absent value stands for the default.
ConfiguredWidth ==
    IF input.fetcher = "dash"
    THEN unwrap_or(input.configured, DefaultMaxConcurrent)
    ELSE input.configured

\* C32: the width given to the worker pool is within 1..32 in every fetcher:
\* a configured 0 becomes 1, a configured value above 32 becomes 32.
C32_PoolWidthClamped ==
    (input # <<>> /\ input.fn = "pool_width" /\ output # <<>>)
       => /\ output.width \in 1..32
          /\ ConfiguredWidth = 0 => output.width = 1
          /\ ConfiguredWidth > 32 => output.width = 32

\* Segments whose download_segment has returned, and those that returned Ok.
FinishedCount == Cardinality({ i \in Idx : task[i] \in {"ok", "err"} })

SucceededCount == Cardinality({ i \in Idx : task[i] = "ok" })

\* C33: the progress callback of download_direct has been called at most
\* once for each segment that has finished, and every call reports the number
\* of segments fetched successfully so far.
C33_ProgressPerCompletion ==
    /\ [](Len(reports) <= FinishedCount)
    /\ [][(reports' # reports)
            => (reports'[Len(reports')] = SucceededCount)]_vars

\* C39: once download_direct has returned, with Ok or with any error, the task
\* id it inserted is no longer in active_downloads.
C39_RegistryEmptyAfterReturn ==
    direct_pc = "returned" => TaskId \notin registry

\* C34: in a download_dash run without an earlier state file that fetches a
\* video and an audio rendition, when the audio call of
\* download_segments_parallel has returned every audio segment has been
\* requested, and when it returned Ok its path list holds every segment.
C34_AudioNotSkippedByVideoMarks ==
    (/\ run_file0.kind = "absent"
     /\ run_plan.video
     /\ run_plan.audio
     /\ run_pc = "audio"
     /\ pc = "returned")
       => /\ \A i \in Idx : requests[i] >= 1
          /\ ret.kind = "ok" => Len(ret.paths) = NumSegs

\* C35: the worker spawned by start_download never locks the downloads mutex
\* while it holds a guard on it: it is never stopped at such a lock, and the
\* mutex stays free for get_download_progress and cancel_download.
C35_WorkerNeverLocksHeldMutex ==
    mgr_pc # "stuck" /\ mgr_mutex = "free"

\* C36: parse_m3u8_directly fetches at most 10 playlists, returns an error
\* when the URL it is to fetch was fetched before, and when it returns Ok
\* every URL of the result is an entry of a media playlist.
C36_OnlyMediaEntriesReturned ==
    (input # <<>> /\ input.fn = "parse_m3u8_directly" /\ output # <<>>)
       => /\ output.fetches <= 10
          /\ output.fetches <= Cardinality(output.visited_urls)
          /\ output.pc = "ok" =>
                \A k \in 1..Len(output.segments) :
                   output.segments[k][1] = "segment"

\* C37: download_stream ends, with a media playlist or with an error, for
\* every playlist graph.
C37_StreamResolutionTerminates ==
    (input # <<>> /\ input.fn = "download_stream")
       => <>(output # <<>> /\ output.pc \in {"media", "err"})

\* C38: for every retry_count, download_segments has sent at least one
\* request for a segment before it reports the segment failed, and when no
\* request was answered with a failure the call returns Ok.
C38_RequestBeforeFailure ==
    fetcher = "hls" =>
        /\ \A i \in Idx : task[i] = "err" => requests[i] >= 1
        /\ (pc = "returned" /\ \A i \in Idx : attempts[i] = 0)
              => ret.kind = "ok"

\* C40: the state file path computed for an output path is never that output
\* path itself.
C40_StatePathDiffersFromOutput ==
    "key_a" \in DOMAIN store_paths
       => /\ store_paths.key_a # store_paths.a
          /\ store_paths.key_b # store_paths.b

====
